---------------------------- MODULE Spec2Model ----------------------------
(***************************************************************************)
(* A model of the document-to-chunks pipeline of the Ontario tenancy       *)
(* assistant: the hierarchy builder (data/parsers/docx_parser.py), the     *)
(* post-processor (data/parsers/post_processor.py), the enhancer           *)
(* (data/parsers/enhancer.py) and the chunk flattener                      *)
(* (scripts/flatten_for_rag.py).                                           *)
(*                                                                         *)
(* Text is a sequence of characters, each character a one-element string   *)
(* (the en dash and the em dash, which the module's character set cannot   *)
(* spell, are the strings "u2013" and "u2014").  Python's None is the      *)
(* empty sequence where the field is a text that is never the empty        *)
(* string, and the node id 0 where the field is a reference to a dict.     *)
(***************************************************************************)
EXTENDS Naturals, Sequences, FiniteSets, TLC

\* ------------------------------------------------------------------------
\* Characters and Python's str primitives
\* ------------------------------------------------------------------------

EnDash == "u2013"
EmDash == "u2014"
Quote == "\""

UpperAZ == <<"A","B","C","D","E","F","G","H","I","J","K","L","M",
             "N","O","P","Q","R","S","T","U","V","W","X","Y","Z">>
LowerAZ == <<"a","b","c","d","e","f","g","h","i","j","k","l","m",
             "n","o","p","q","r","s","t","u","v","w","x","y","z">>

Range(f) == {f[i] : i \in DOMAIN f}

\* \s of re, and the characters str.strip() removes
IsSpace(c) == c \in {" ", "\t", "\n", "\r", "\f"}
\* \d of re, str.isdigit
IsDigit(c) == c \in {"0","1","2","3","4","5","6","7","8","9"}
IsUpper(c) == c \in Range(UpperAZ)
IsLower(c) == c \in Range(LowerAZ)
IsLetter(c) == IsUpper(c) \/ IsLower(c)
\* [\n\r]
IsNewline(c) == c \in {"\n", "\r"}
\* [–-]
IsDash(c) == c \in {"-", EnDash}
\* [,\s\-–—]
IsSeparator(c) == c \in {",", "-", EnDash, EmDash} \/ IsSpace(c)
\* [IVXLC] under re.IGNORECASE
IsRoman(c) == c \in {"I","V","X","L","C","i","v","x","l","c"}
\* [A-Z0-9] under re.IGNORECASE
IsAlnum(c) == IsLetter(c) \/ IsDigit(c)

UpperChar(c) ==
    IF IsLower(c) THEN UpperAZ[CHOOSE i \in DOMAIN LowerAZ : LowerAZ[i] = c]
    ELSE c

\* str.upper()
Upper(s) == [i \in 1..Len(s) |-> UpperChar(s[i])]

\* s[i:] of Python with the 1-based index i
From(s, i) == SubSeq(s, i, Len(s))

\* the first index at or after i whose character is not in the class P
\* (Len(s) + 1 when the run reaches the end): a greedy P* from i
SpanEnd(s, i, P(_)) ==
    CHOOSE j \in i..(Len(s) + 1) :
        /\ \A k \in i..(j - 1) : P(s[k])
        /\ (j = Len(s) + 1 \/ ~P(s[j]))

\* the last index at or before i whose character is not in the class P,
\* 0 when the run reaches the start
SpanStart(s, i, P(_)) ==
    CHOOSE j \in 0..i :
        /\ \A k \in (j + 1)..i : P(s[k])
        /\ (j = 0 \/ ~P(s[j]))

\* str.strip()
Strip(s) ==
    LET a == SpanEnd(s, 1, IsSpace)
    IN  IF a > Len(s) THEN <<>>
        ELSE SubSeq(s, a, SpanStart(s, Len(s), IsSpace))

\* the literal w stands in s at index i
LitAt(s, i, w) ==
    /\ i >= 1
    /\ i + Len(w) - 1 <= Len(s)
    /\ \A k \in 1..Len(w) : s[i + k - 1] = w[k]

\* the literal w stands in s at index i, under re.IGNORECASE
LitAtCI(s, i, w) ==
    /\ i >= 1
    /\ i + Len(w) - 1 <= Len(s)
    /\ \A k \in 1..Len(w) : UpperChar(s[i + k - 1]) = UpperChar(w[k])

\* w in s
Contains(s, w) == \E i \in 1..(Len(s) + 1) : LitAt(s, i, w)

\* re.search(w, s, re.IGNORECASE) for a literal w
ContainsCI(s, w) == \E i \in 1..(Len(s) + 1) : LitAtCI(s, i, w)

\* (.*)$ and (.+)$ at index i: '.' matches no "\n", and the text the
\* builder matches is stripped, so the rest must be free of "\n"
NoNewlineFrom(s, i) == \A k \in i..Len(s) : s[k] # "\n"


\* ------------------------------------------------------------------------
\* Regular expressions.  A pattern is a sequence of steps:
\*   <<"lit", w>>        the literal w            <<"ilit", w>>  w, ignoring case
\*   <<"star", c>>       c*  (greedy)             <<"plus", c>>  c+  (greedy)
\*   <<"one", c>>        one character of c       <<"count", c, n>>  c{n}
\*   <<"opt", steps>>    (?:steps)?               <<"alt", a, b>>  (?:a|b)
\*   <<"gap">>           \s*[\n\r]+\s*            <<"mark", k>>  a group boundary
\*   <<"rest", n>>       the rest up to $ is at least n characters, none "\n"
\*   <<"end">>           $
\*   <<"plus_back", c, w>>  c+ giving characters back until the literal w follows
\* where c names a character class.  Scan takes every run greedily and gives
\* nothing back.  For the patterns of this repository that is what re does:
\* each run is followed by a step that cannot start with a character of the
\* run, and the text matched is stripped.  The three places where re must
\* give characters back ([^"]+ of the definition rule, (.+?) of the merged
\* Part rule, \s*[\n\r]+ of the multi-line Part rule) are searched explicitly
\* (definition_match, MergedSplit) or are a step of their own ("gap").
\* ------------------------------------------------------------------------

InClass(c, class) ==
    CASE class = "space"     -> IsSpace(c)
      [] class = "digit"     -> IsDigit(c)
      [] class = "roman"     -> IsRoman(c)
      [] class = "alnum"     -> IsAlnum(c)
      [] class = "letter"    -> IsLetter(c)
      [] class = "dash"      -> IsDash(c)
      [] class = "separator" -> IsSeparator(c)
      [] class = "comma_space" -> c = "," \/ IsSpace(c)
      [] class = "upper"     -> IsUpper(c)
      [] class = "not_quote" -> c # Quote
      [] class = "not_open"  -> c # "("
      [] class = "not_close" -> c # ")"
      [] class = "parenthesis" -> c \in {"(", ")"}

\* the first index at or after i whose character is not in the class
RunEnd(s, i, class) ==
    CHOOSE j \in i..(Len(s) + 1) :
        /\ \A k \in i..(j - 1) : InClass(s[k], class)
        /\ (j = Len(s) + 1 \/ ~InClass(s[j], class))

Failed == [ok |-> FALSE, pos |-> 0, marks |-> <<>>]

\* the result of one step that moves to the index j when fits holds
Moved(fits, j, marks) == IF fits THEN [ok |-> TRUE, pos |-> j, marks |-> marks] ELSE Failed

RECURSIVE Scan(_, _, _, _)
\* the steps matched against s from the index i (1 <= i <= Len(s) + 1)
Scan(s, i, steps, marks) ==
    IF steps = <<>> THEN [ok |-> TRUE, pos |-> i, marks |-> marks]
    ELSE
      LET step == Head(steps)
          kind == step[1]
          r == CASE kind = "lit"   -> Moved(LitAt(s, i, step[2]), i + Len(step[2]), marks)
                 [] kind = "ilit"  -> Moved(LitAtCI(s, i, step[2]), i + Len(step[2]), marks)
                 [] kind = "star"  -> Moved(TRUE, RunEnd(s, i, step[2]), marks)
                 [] kind = "plus"  -> Moved(RunEnd(s, i, step[2]) > i, RunEnd(s, i, step[2]), marks)
                 [] kind = "one"   -> Moved(i <= Len(s) /\ InClass(s[i], step[2]), i + 1, marks)
                 [] kind = "count" -> Moved(RunEnd(s, i, step[2]) >= i + step[3], i + step[3], marks)
                 [] kind = "gap"   -> Moved(\E k \in i..(RunEnd(s, i, "space") - 1) : IsNewline(s[k]),
                                            RunEnd(s, i, "space"), marks)
                 [] kind = "rest"  -> Moved(Len(s) + 1 - i >= step[2] /\ NoNewlineFrom(s, i),
                                            Len(s) + 1, marks)
                 [] kind = "end"   -> Moved(i = Len(s) + 1, i, marks)
                 [] kind = "plus_back" ->
                        Moved(\E j \in (i + 1)..RunEnd(s, i, step[2]) : LitAt(s, j, step[3]),
                              CHOOSE j \in (i + 1)..RunEnd(s, i, step[2]) :
                                  /\ LitAt(s, j, step[3])
                                  /\ \A k \in (j + 1)..RunEnd(s, i, step[2]) :
                                         ~LitAt(s, k, step[3]),
                              marks)
                 [] kind = "mark"  -> Moved(TRUE, i, (step[2] :> i) @@ marks)
                 [] kind = "opt"   -> Moved(TRUE, IF Scan(s, i, step[2], marks).ok
                                                  THEN Scan(s, i, step[2], marks).pos ELSE i,
                                            IF Scan(s, i, step[2], marks).ok
                                            THEN Scan(s, i, step[2], marks).marks ELSE marks)
                 [] kind = "alt"   -> IF Scan(s, i, step[2], marks).ok
                                      THEN Scan(s, i, step[2], marks)
                                      ELSE Scan(s, i, step[3], marks)
      IN  IF r.ok THEN Scan(s, r.pos, Tail(steps), r.marks) ELSE Failed

\* re.match(pattern, s) for a pattern that ends in $
Match(s, pattern) == Scan(s, 1, pattern, <<>>)

\* the text between the marks a and b of a match
Group(s, m, a, b) == SubSeq(s, m.marks[a], m.marks[b] - 1)

\* the text from the mark a of a match to the end
GroupToEnd(s, m, a) == SubSeq(s, m.marks[a], Len(s))


\* ------------------------------------------------------------------------
\* The builder's patterns (data/parsers/docx_parser.py).  Each is applied to
\* stripped text; a result is a record whose field ok says whether the
\* pattern matched, with the groups the code reads.
\* ------------------------------------------------------------------------

NoMatch == [ok |-> FALSE]

\* the groups 1 and 2 of a match of a pattern whose group 1 lies between the
\* marks "a" and "b" and whose group 2 runs from the mark "c" to the end
Groups(s, m) ==
    IF m.ok THEN [ok |-> TRUE, g1 |-> Group(s, m, "a", "b"), g2 |-> GroupToEnd(s, m, "c")]
    ELSE NoMatch

\* the group 1 of a match of a pattern with that group alone
GroupOne(s, m) == IF m.ok THEN [ok |-> TRUE, g1 |-> Group(s, m, "a", "b")] ELSE NoMatch

\* PART\s+ under re.IGNORECASE
PartPrefix == << <<"ilit", <<"P","A","R","T">> >>, <<"plus", "space">> >>

\* ([IVXLC]+|[\d]+) under re.IGNORECASE, as group 1
Numeral ==
    << <<"mark", "a">>,
       <<"alt", << <<"plus", "roman">> >>, << <<"plus", "digit">> >> >>,
       <<"mark", "b">> >>

\* \s*[–-]\s*(.+)$, the last group as group 2
DashAndTitle ==
    << <<"star", "space">>, <<"one", "dash">>, <<"star", "space">>,
       <<"mark", "c">>, <<"rest", 1>> >>

\* re.match(r'^SCHEDULE\s+([A-Z0-9]+)\s*[–-]?\s*(.*)$', text, re.IGNORECASE)
schedule_match(s) ==
    Groups(s, Match(s,
        << <<"ilit", <<"S","C","H","E","D","U","L","E">> >>, <<"plus", "space">>,
           <<"mark", "a">>, <<"plus", "alnum">>, <<"mark", "b">>,
           <<"star", "space">>, <<"opt", << <<"one", "dash">> >> >>, <<"star", "space">>,
           <<"mark", "c">>, <<"rest", 0>> >>))

\* schedule_part_match without re.IGNORECASE and for the numeral I alone
schedule_part_match_one(s) ==
    Match(s, << <<"lit", <<"P","A","R","T">> >>, <<"plus", "space">>,
                <<"lit", <<"I">> >>, <<"star", "space">>, <<"end">> >>).ok

\* re.match(r'^PART\s+[IVXLC]+', text, re.IGNORECASE)
schedule_part_match(s) == Match(s, PartPrefix \o << <<"plus", "roman">> >>).ok

\* re.match(r'^PART\s+([IVXLC]+|[\d]+)\s*[–-]\s*(.+)$', text, re.IGNORECASE)
part_match(s) == Groups(s, Match(s, PartPrefix \o Numeral \o DashAndTitle))

\* re.match(r'^part\s+([ivxlc]+|[\d]+)\s*[\n\r]+\s*(.+)$', text, re.IGNORECASE)
multiline_part_match(s) ==
    Groups(s, Match(s, PartPrefix \o Numeral
                       \o << <<"gap">>, <<"mark", "c">>, <<"rest", 1>> >>))

\* re.match(r'^part\s+([ivxlc]+|[\d]+)\s*$', text, re.IGNORECASE)
part_number_only(s) ==
    GroupOne(s, Match(s, PartPrefix \o Numeral \o << <<"star", "space">>, <<"end">> >>))

\* re.search(r'Section Amendments with date in force', text, re.IGNORECASE)
SectionAmendmentsHeader ==
    <<"S","e","c","t","i","o","n"," ","A","m","e","n","d","m","e","n","t","s",
      " ","w","i","t","h"," ","d","a","t","e"," ","i","n"," ","f","o","r","c","e">>

amendment_header_match(s) == ContainsCI(s, SectionAmendmentsHeader)

\* Python's None for an optional dict (amendment_info)
NoInfo == [none |-> TRUE]

\* the amendment_pattern of extract_amendment_info:
\* (\d{4}),\s*c\.\s*(\d+)(?:,\s*(?:s\.|Sched\.)\s*(\d+))?\s*(?:-\s*(\d{2}/\d{2}/\d{4}))?
\* Every part after (\d+) is optional, so the greedy choices stand.
amendment_pattern ==
    << <<"count", "digit", 4>>, <<"lit", <<",">> >>, <<"star", "space">>,
       <<"lit", <<"c",".">> >>, <<"star", "space">>,
       <<"mark", "chapter">>, <<"plus", "digit">>, <<"mark", "chapter_end">>,
       <<"opt", << <<"lit", <<",">> >>, <<"star", "space">>,
                   <<"alt", << <<"lit", <<"s",".">> >> >>,
                            << <<"lit", <<"S","c","h","e","d",".">> >> >> >>,
                   <<"star", "space">>,
                   <<"mark", "ref">>, <<"plus", "digit">>, <<"mark", "ref_end">> >> >>,
       <<"star", "space">>,
       <<"opt", << <<"lit", <<"-">> >>, <<"star", "space">>,
                   <<"mark", "date">>,
                   <<"count", "digit", 2>>, <<"lit", <<"/">> >>,
                   <<"count", "digit", 2>>, <<"lit", <<"/">> >>,
                   <<"count", "digit", 4>>, <<"mark", "date_end">> >> >> >>

\* the groups of a match m of the amendment_pattern that starts at index i
AmendmentGroups(s, i, m) ==
    IF m.ok
    THEN [ok |-> TRUE, start |-> i, end |-> m.pos,
          year |-> SubSeq(s, i, i + 3),
          chapter |-> Group(s, m, "chapter", "chapter_end"),
          ref |-> IF "ref" \in DOMAIN m.marks THEN Group(s, m, "ref", "ref_end") ELSE <<>>,
          date |-> IF "date" \in DOMAIN m.marks THEN Group(s, m, "date", "date_end") ELSE <<>>]
    ELSE NoMatch

\* the amendment_pattern matched at index i
AmendmentAt(s, i) == AmendmentGroups(s, i, Scan(s, i, amendment_pattern, <<>>))

\* the least element of a non-empty set of indices
Leftmost(hits) == CHOOSE i \in hits : \A j \in hits : i <= j

\* AmendmentAt at the leftmost of the indices hits, no match when there is none
FirstAmendment(s, hits) == IF hits = {} THEN NoMatch ELSE AmendmentAt(s, Leftmost(hits))

\* re.search(amendment_pattern, text): the leftmost match
amendment_search(s) ==
    FirstAmendment(s, {i \in 1..Len(s) : Scan(s, i, amendment_pattern, <<>>).ok})

\* re.sub(r'[,\s\-–—]+$', '', text)
StripTrailingSeparators(s) == SubSeq(s, 1, SpanStart(s, Len(s), IsSeparator))

\* the amendment dict extract_amendment_info builds from a match m of text s
AmendmentDict(s, m) ==
    [year |-> m.year, chapter |-> m.chapter,
     citation |-> Strip(SubSeq(s, m.start, m.end - 1))]
    @@ (IF m.ref = <<>> THEN <<>>
        ELSE IF Contains(s, <<"S","c","h","e","d",".">>)
             THEN ("schedule" :> m.ref) ELSE ("section" :> m.ref))
    @@ (IF m.date = <<>> THEN <<>> ELSE ("effective_date" :> m.date))

\* what extract_amendment_info returns for the result m of its search in s
AmendmentResult(s, m) ==
    IF m.ok
    THEN [text |-> Strip(StripTrailingSeparators(Strip(SubSeq(s, 1, m.start - 1)))),
          info |-> AmendmentDict(s, m)]
    ELSE IF amendment_header_match(s)
    THEN [text |-> <<>>, info |-> NoInfo]
    ELSE [text |-> s, info |-> NoInfo]

\* extract_amendment_info(text): the pair (cleaned_text, amendment dict or None)
extract_amendment_info(s) == AmendmentResult(s, amendment_search(s))

\* ["""]?\s+means\s+(.+)$, the last group as group 2
MeansPattern ==
    << <<"opt", << <<"lit", <<Quote>> >> >> >>,
       <<"plus", "space">>, <<"lit", <<"m","e","a","n","s">> >>, <<"plus", "space">>,
       <<"mark", "c">>, <<"rest", 1>> >>

\* the definition match whose term ends before the greatest index of ends
DefinitionGroups(s, ends) ==
    IF Len(s) >= 1 /\ s[1] = Quote /\ ends # {}
    THEN [ok |-> TRUE,
          g1 |-> SubSeq(s, 2, (CHOOSE e \in ends : \A f \in ends : f <= e) - 1),
          g2 |-> GroupToEnd(s, Scan(s, CHOOSE e \in ends : \A f \in ends : f <= e,
                                    MeansPattern, <<>>), "c")]
    ELSE NoMatch

\* re.match(r'^["""]([^"""]+)["""]?\s+means\s+(.+)$', text): the greedy
\* [^"]+ gives characters back until the rest matches, so the term ends at
\* the last index e from which the rest of the pattern matches
definition_match(s) ==
    DefinitionGroups(s, {e \in 3..RunEnd(s, 2, "not_quote") : Scan(s, e, MeansPattern, <<>>).ok})

\* re.match(r'^(?:Section\s+)?(\d+)\.?\s*(.*)$', text)
section_match(s) ==
    Groups(s, Match(s,
        << <<"opt", << <<"lit", <<"S","e","c","t","i","o","n">> >>, <<"plus", "space">> >> >>,
           <<"mark", "a">>, <<"plus", "digit">>, <<"mark", "b">>,
           <<"opt", << <<"lit", <<".">> >> >> >>, <<"star", "space">>,
           <<"mark", "c">>, <<"rest", 0>> >>))

\* [,\s]c\.\s*\d+[,\s]s\.\s*\d+
chapter_section_pattern ==
    << <<"one", "comma_space">>, <<"lit", <<"c",".">> >>, <<"star", "space">>,
       <<"plus", "digit">>, <<"one", "comma_space">>, <<"lit", <<"s",".">> >>,
       <<"star", "space">>, <<"plus", "digit">> >>

\* re.search(r'[,\s]c\.\s*\d+[,\s]s\.\s*\d+', text)
chapter_section_search(s) ==
    \E i \in 1..Len(s) : Scan(s, i, chapter_section_pattern, <<>>).ok

\* is_amendment_entry(text, section_number)
is_amendment_entry(text, section_number) ==
    IF Len(section_number) = 4 /\ \A k \in 1..4 : IsDigit(section_number[k])
    THEN TRUE
    ELSE chapter_section_search(text)

\* clean_section_title(title)
clean_section_title(title) ==
    Strip(From(title, RunEnd(title, 1, "separator")))

\* re.match(r'^\((\d+)\)\s*(.*)$', text)
subsection_match(s) ==
    Groups(s, Match(s,
        << <<"lit", <<"(">> >>, <<"mark", "a">>, <<"plus", "digit">>, <<"mark", "b">>,
           <<"lit", <<")">> >>, <<"star", "space">>, <<"mark", "c">>, <<"rest", 0>> >>))

\* re.match(r'^\(([a-z])\)\s*(.*)$', text, re.IGNORECASE)
paragraph_match(s) ==
    Groups(s, Match(s,
        << <<"lit", <<"(">> >>, <<"mark", "a">>, <<"one", "letter">>, <<"mark", "b">>,
           <<"lit", <<")">> >>, <<"star", "space">>, <<"mark", "c">>, <<"rest", 0>> >>))

\* \s+(PART\s+[IVXLC]+\s*[–-]\s*.+)$ under re.IGNORECASE, the group from mark "c"
MergedPartPattern ==
    << <<"plus", "space">>, <<"mark", "c">> >> \o PartPrefix
    \o << <<"plus", "roman">>, <<"star", "space">>, <<"one", "dash">>,
          <<"star", "space">>, <<"rest", 1>> >>

\* (.+?) from index a ends before index e and the rest of the pattern follows
MergedFits(s, a, e) ==
    /\ \A k \in a..(e - 1) : s[k] # "\n"
    /\ Scan(s, e, MergedPartPattern, <<>>).ok

\* the match whose (.+?) starts at index a: the shortest that fits
MergedFrom(s, a) ==
    [ok |-> TRUE,
     g1 |-> SubSeq(s, a, (CHOOSE e \in (a + 1)..Len(s) :
                            MergedFits(s, a, e)
                            /\ \A f \in (a + 1)..(e - 1) : ~MergedFits(s, a, f)) - 1),
     g2 |-> GroupToEnd(s, Scan(s, CHOOSE e \in (a + 1)..Len(s) :
                                     MergedFits(s, a, e)
                                     /\ \A f \in (a + 1)..(e - 1) : ~MergedFits(s, a, f),
                               MergedPartPattern, <<>>), "c")]

\* the match that starts at the leftmost of the indices starts
MergedLeftmost(s, starts) ==
    IF starts = {} THEN NoMatch ELSE MergedFrom(s, Leftmost(starts))

\* re.search(r'(.+?)\s+(PART\s+[IVXLC]+\s*[–-]\s*.+)$', text, re.IGNORECASE):
\* the leftmost start a, and for it the shortest (.+?)
MergedSplit(s) ==
    MergedLeftmost(s, {a \in 1..Len(s) : \E e \in (a + 1)..Len(s) : MergedFits(s, a, e)})

\* what split_merged_content returns for the result m of its search in text
SplitResult(text, m) ==
    IF m.ok THEN [main |-> Strip(m.g1), part |-> Strip(m.g2)]
    ELSE [main |-> text, part |-> <<>>]

\* split_merged_content(text): the pair (main text, split PART text or None)
split_merged_content(text) == SplitResult(text, MergedSplit(text))

\* ------------------------------------------------------------------------
\* The hierarchy builder: parse_legal_document (data/parsers/docx_parser.py)
\* ------------------------------------------------------------------------

\* The dicts the builder creates for Parts, Sections, Subsections,
\* Paragraphs and Schedules live in heap, a sequence indexed by node id; a
\* list of dicts is a sequence of ids and a reference is an id (0 for None).
VARIABLES
    elements,             \* the input stream: a sequence of [category, text]
    idx,                  \* the number of elements the loop has consumed
    pc,                   \* where the run stands
    document,             \* the document dict of parse_legal_document
    heap,                 \* the dicts allocated so far
    current_part,
    current_section,
    current_subsection,
    current_schedule,
    pending_part_text,
    pending_part_number

\* the builder's variables but its position
builder_vars_but_pc == <<elements, idx, document, heap, current_part,
                         current_section, current_subsection, current_schedule,
                         pending_part_text, pending_part_number>>

None == <<>>

Ontario == <<"O","n","t","a","r","i","o">>

\* the category the table-of-contents rule tests, and its length threshold
TableCategory == "Table"
TableNoiseLength == 1000
\* the length caps of the metadata, standalone-amendment and section rules
CitationMaxLength == 300
ActNameMaxLength == 200
StandaloneAmendmentMaxLength == 100
SectionHeaderMaxLength == 300

\* the document dict as initialised
InitialDocument ==
    [act_name |-> None, jurisdiction |-> Ontario, citation |-> None,
     consolidation_date |-> None, last_amendment |-> None,
     parts |-> <<>>, definitions |-> <<>>, schedules |-> <<>>,
     amendments |-> <<>>]

\* the local state of parse_legal_document before the loop
InitialBuilder ==
    [document |-> InitialDocument, heap |-> <<>>,
     current_part |-> 0, current_section |-> 0, current_subsection |-> 0,
     current_schedule |-> 0,
     pending_part_text |-> None, pending_part_number |-> None]

\* the local state of parse_legal_document as one record
Builder ==
    [document |-> document, heap |-> heap,
     current_part |-> current_part, current_section |-> current_section,
     current_subsection |-> current_subsection,
     current_schedule |-> current_schedule,
     pending_part_text |-> pending_part_text,
     pending_part_number |-> pending_part_number]

\* d with the key k set to v
WithKey(d, k, v) == (k :> v) @@ d

\* the id the next allocated dict gets
NewId(st) == Len(st.heap) + 1

\* text + " " + more
Joined(text, more) == text \o <<" ">> \o more

\* the Act metadata and consolidation rules: the document after them
detect_metadata(doc, text) ==
    LET hasAct == Contains(text, <<"A","c","t">>)
        hasSO  == Contains(text, <<"S",".","O",".">>)
        d1 == IF doc.act_name = None /\ (hasAct \/ hasSO)
                 /\ hasSO /\ Len(text) < CitationMaxLength
              THEN [doc EXCEPT !.citation = text] ELSE doc
        d2 == IF doc.act_name = None /\ (hasAct \/ hasSO)
                 /\ Len(text) < ActNameMaxLength /\ hasAct
                 /\ ~Contains(Upper(text), <<"P","A","R","T">>)
              THEN [d1 EXCEPT !.act_name = text] ELSE d1
        cons == Contains(text, <<"C","o","n","s","o","l","i","d","a","t","i","o","n">>)
        d3 == IF \/ Contains(text, <<"C","o","n","s","o","l","i","d","a","t","i","o","n",
                                     " ","P","e","r","i","o","d">>)
                 \/ Contains(text, <<"L","a","s","t"," ","a","m","e","n","d","m","e","n","t">>)
              THEN IF cons THEN [d2 EXCEPT !.consolidation_date = text]
                   ELSE IF Contains(text, <<"a","m","e","n","d","m","e","n","t">>)
                        THEN [d2 EXCEPT !.last_amendment = text]
                        ELSE d2
              ELSE d2
    IN  d3

\* open_schedule that leaves the current Part, Section and Subsection
open_schedule_keeping_position(st, m) ==
    [st EXCEPT
        !.heap = Append(@, [schedule_id |-> m.g1, schedule_title |-> Strip(m.g2),
                            content |-> <<>>]),
        !.document.schedules = Append(@, Len(st.heap) + 1),
        !.current_schedule = Len(st.heap) + 1]

\* a Schedule header: a new Schedule is opened and the position is closed
open_schedule(st, m) ==
    [st EXCEPT
        !.heap = Append(@, [schedule_id |-> m.g1, schedule_title |-> Strip(m.g2),
                            content |-> <<>>]),
        !.document.schedules = Append(@, NewId(st)),
        !.current_schedule = NewId(st),
        !.current_part = 0, !.current_section = 0, !.current_subsection = 0]

\* a new Part with this number and title is appended and becomes current
open_part(st, number, title) ==
    [st EXCEPT
        !.heap = Append(@, [part_number |-> number, part_title |-> title,
                            sections |-> <<>>]),
        !.document.parts = Append(@, NewId(st)),
        !.current_part = NewId(st),
        !.current_section = 0, !.current_subsection = 0,
        !.current_schedule = 0]


\* d with amendment_info set when the extraction found one
WithAmendment(d, info) ==
    IF info = NoInfo THEN d ELSE WithKey(d, "amendment_info", info)

\* ensure_part without the insertion into document["parts"]
ensure_part_unlisted(st) ==
    IF st.current_part = 0
    THEN [st EXCEPT
            !.heap = Append(@, [part_number |-> <<"P","R","E","L","I","M","I","N","A","R","Y">>,
                                part_title |-> <<"P","r","e","l","i","m","i","n","a","r","y"," ",
                                                 "S","e","c","t","i","o","n","s">>,
                                sections |-> <<>>]),
            !.current_part = NewId(st)]
    ELSE st

\* the PRELIMINARY Part a Section creates when no Part is open: it is
\* inserted in front of document["parts"] and becomes current
ensure_part(st) ==
    IF st.current_part = 0
    THEN [st EXCEPT
            !.heap = Append(@, [part_number |-> <<"P","R","E","L","I","M","I","N","A","R","Y">>,
                                part_title |-> <<"P","r","e","l","i","m","i","n","a","r","y"," ",
                                                 "S","e","c","t","i","o","n","s">>,
                                sections |-> <<>>]),
            !.document.parts = <<NewId(st)>> \o @,
            !.current_part = NewId(st)]
    ELSE st

\* append_section that leaves the open Subsection open
append_section_keeping_subsection(st, section_number, ex) ==
    [st EXCEPT
        !.heap = [Append(@, WithAmendment([section_number |-> section_number,
                                           section_title |-> clean_section_title(ex.text),
                                           section_text |-> <<>>,
                                           subsections |-> <<>>], ex.info)) EXCEPT
                     ![st.current_part].sections = Append(@, NewId(st))],
        !.current_section = NewId(st)]

\* the Section built from the extraction ex of its title is appended to the
\* current Part and becomes current
append_section(st, section_number, ex) ==
    [st EXCEPT
        !.heap = [Append(@, WithAmendment([section_number |-> section_number,
                                           section_title |-> clean_section_title(ex.text),
                                           section_text |-> <<>>,
                                           subsections |-> <<>>], ex.info)) EXCEPT
                     ![st.current_part].sections = Append(@, NewId(st))],
        !.current_section = NewId(st),
        !.current_subsection = 0]

\* a Section header that is no amendment entry: the Section is appended to
\* the current Part, a PRELIMINARY Part being created first when none is open
open_section(st, section_number, title) ==
    append_section(ensure_part(st), section_number, extract_amendment_info(title))

\* append_amendment_entry with the number as year, whatever its length
append_amendment_entry_with_year(st, text, section_number, section_title) ==
    [st EXCEPT !.document.amendments = Append(@,
        [year |-> section_number,
         citation |-> IF section_title # <<>> THEN clean_section_title(section_title)
                      ELSE text,
         full_text |-> text])]

\* a Section header whose number or text marks an amendment entry
append_amendment_entry(st, text, section_number, section_title) ==
    [st EXCEPT !.document.amendments = Append(@,
        [year |-> IF Len(section_number) = 4 THEN section_number ELSE None,
         citation |-> IF section_title # <<>> THEN clean_section_title(section_title)
                      ELSE text,
         full_text |-> text])]

\* the Subsection built from the extraction ex of its text is appended to
\* the current Section and becomes current
append_subsection(st, number, ex) ==
    [st EXCEPT
        !.heap = [Append(@, WithAmendment([subsection_number |-> <<"(">> \o number \o <<")">>,
                                           subsection_text |-> ex.text,
                                           paragraphs |-> <<>>], ex.info)) EXCEPT
                     ![st.current_section].subsections = Append(@, NewId(st))],
        !.current_subsection = NewId(st)]

\* a Subsection marker with a Section open
open_subsection(st, m) ==
    append_subsection(st, m.g1, extract_amendment_info(Strip(m.g2)))

\* open_paragraph with the Paragraph put in front of the list
open_paragraph_first(st, m) ==
    [st EXCEPT
        !.heap = [Append(@, [label |-> <<"(">> \o m.g1 \o <<")">>,
                             text |-> Strip(m.g2)]) EXCEPT
                     ![st.current_subsection].paragraphs = <<NewId(st)>> \o @]]

\* a Paragraph marker with a Subsection open
open_paragraph(st, m) ==
    [st EXCEPT
        !.heap = [Append(@, [label |-> <<"(">> \o m.g1 \o <<")">>,
                             text |-> Strip(m.g2)]) EXCEPT
                     ![st.current_subsection].paragraphs = Append(@, NewId(st))]]

\* the last element of a non-empty list
Last(list) == list[Len(list)]

\* append_to_context with the text of a Section without Subsections going
\* to the first Section of the open Part
append_to_context_first_section(st, text) ==
    IF st.current_subsection # 0
    THEN IF st.heap[st.current_subsection].paragraphs # <<>>
         THEN [st EXCEPT !.heap[Last(st.heap[st.current_subsection].paragraphs)].text =
                             Joined(@, text)]
         ELSE [st EXCEPT !.heap[st.current_subsection].subsection_text = Joined(@, text)]
    ELSE IF st.current_section # 0
    THEN [st EXCEPT !.heap[Head(st.heap[st.current_part].sections)].section_text =
                        Joined(@, text)]
    ELSE st

\* plain continuation: the text goes to the innermost open context
append_to_context(st, text) ==
    LET h == st.heap
    IN  IF st.current_subsection # 0
        THEN IF h[st.current_subsection].paragraphs # <<>>
             THEN [st EXCEPT !.heap[Last(h[st.current_subsection].paragraphs)].text =
                                 Joined(@, text)]
             ELSE [st EXCEPT !.heap[st.current_subsection].subsection_text =
                                 Joined(@, text)]
        ELSE IF st.current_section # 0
        THEN IF h[st.current_section].subsections = <<>>
             THEN [st EXCEPT !.heap[st.current_section].section_text = Joined(@, text)]
             ELSE [st EXCEPT !.heap[Last(h[st.current_section].subsections)].subsection_text =
                                 Joined(@, text)]
        ELSE IF st.current_part # 0
        THEN IF h[st.current_part].sections = <<>>
             THEN IF "description" \notin DOMAIN h[st.current_part]
                  THEN [st EXCEPT !.heap[st.current_part] = WithKey(@, "description", text)]
                  ELSE [st EXCEPT !.heap[st.current_part].description = Joined(@, text)]
             ELSE st
        ELSE st

\* continuation that opens the merged Part at once instead of deferring it
continuation_opening_part(st, text) ==
    IF split_merged_content(text).part # None
    THEN open_part(append_to_context(st, split_merged_content(text).main),
                   Upper(part_match(split_merged_content(text).part).g1),
                   Upper(Strip(part_match(split_merged_content(text).part).g2)))
    ELSE append_to_context(st, text)

\* continuation without the merged-PART detection
continuation_unsplit(st, text) == append_to_context(st, text)

\* the last rule of the loop body: merged-PART detection, then the append
continuation(st, text) ==
    LET sp == split_merged_content(text)
    IN  IF sp.part # None
        THEN append_to_context([st EXCEPT !.pending_part_text = sp.part], sp.main)
        ELSE append_to_context(st, text)

\* section_rules that drops a Subsection marker met with no Section open
section_rules_dropping_marker(st, text) ==
    IF section_match(text).ok /\ Len(text) < SectionHeaderMaxLength
    THEN IF is_amendment_entry(text, section_match(text).g1)
         THEN append_amendment_entry(st, text, section_match(text).g1,
                                     Strip(section_match(text).g2))
         ELSE open_section(st, section_match(text).g1, Strip(section_match(text).g2))
    ELSE IF subsection_match(text).ok
    THEN IF st.current_section # 0 THEN open_subsection(st, subsection_match(text))
         ELSE st
    ELSE IF paragraph_match(text).ok /\ st.current_subsection # 0
    THEN open_paragraph(st, paragraph_match(text))
    ELSE continuation(st, text)

\* the rules of the loop body from the Section rule on
section_rules(st, text) ==
    LET sm == section_match(text)
        ssm == subsection_match(text)
        pm == paragraph_match(text)
    IN  IF sm.ok /\ Len(text) < SectionHeaderMaxLength
        THEN IF is_amendment_entry(text, sm.g1)
             THEN append_amendment_entry(st, text, sm.g1, Strip(sm.g2))
             ELSE open_section(st, sm.g1, Strip(sm.g2))
        ELSE IF ssm.ok /\ st.current_section # 0
        THEN open_subsection(st, ssm)
        ELSE IF pm.ok /\ st.current_subsection # 0
        THEN open_paragraph(st, pm)
        ELSE continuation(st, text)

\* the rules of the loop body from the pending Part number on
part_rules(st, text) ==
    LET m1 == part_match(text)
        m2 == multiline_part_match(text)
        m3 == part_number_only(text)
        dm == definition_match(text)
    IN  IF st.pending_part_number # None
        THEN [open_part(st, st.pending_part_number, Upper(Strip(text)))
                 EXCEPT !.pending_part_number = None]
        ELSE IF m1.ok THEN open_part(st, Upper(m1.g1), Upper(Strip(m1.g2)))
        ELSE IF m2.ok THEN open_part(st, Upper(m2.g1), Upper(Strip(m2.g2)))
        ELSE IF m3.ok THEN [st EXCEPT !.pending_part_number = Upper(m3.g1)]
        ELSE IF amendment_header_match(text) THEN st
        ELSE IF extract_amendment_info(text).info # NoInfo
                /\ Len(text) < StandaloneAmendmentMaxLength
        THEN st
        ELSE IF dm.ok
        THEN [st EXCEPT !.document.definitions =
                 Append(@, [term |-> Strip(dm.g1), definition |-> Strip(dm.g2)])]
        ELSE section_rules(st, text)

\* schedule_rules with the merged-PART detection applied to the content of
\* an open Schedule
schedule_rules_splitting(st, text) ==
    IF schedule_match(text).ok THEN open_schedule(st, schedule_match(text))
    ELSE IF st.current_schedule # 0 /\ ~schedule_part_match(text)
    THEN [st EXCEPT !.heap[st.current_schedule].content =
                        Joined(@, split_merged_content(text).main),
                    !.pending_part_text = split_merged_content(text).part]
    ELSE part_rules([st EXCEPT !.current_schedule = 0], text)

\* the rules of the loop body from the Schedule header on
schedule_rules(st, text) ==
    IF schedule_match(text).ok THEN open_schedule(st, schedule_match(text))
    ELSE IF st.current_schedule # 0 /\ ~schedule_part_match(text)
    THEN [st EXCEPT !.heap[st.current_schedule].content = Joined(@, text)]
    ELSE part_rules([st EXCEPT !.current_schedule = 0], text)

\* one iteration of the loop of parse_legal_document on one element
process_element(st, element) ==
    LET stripped == Strip(element.text)
        text == IF st.pending_part_text # None THEN st.pending_part_text
                ELSE stripped
        s1 == [st EXCEPT !.pending_part_text = None,
                         !.document = detect_metadata(@, text)]
    IN  IF stripped = <<>> THEN st
        ELSE IF element.category = TableCategory /\ Len(stripped) > TableNoiseLength
        THEN st
        ELSE schedule_rules(s1, text)

\* the clean-up after the loop: section and subsection texts are stripped
strip_texts(st) ==
    [st EXCEPT !.heap =
        [i \in DOMAIN st.heap |->
            LET d == st.heap[i]
                attached(key) == \E p \in Range(st.document.parts) :
                                   \E sec \in Range(st.heap[p].sections) :
                                      \/ key = "section_text" /\ i = sec
                                      \/ key = "subsection_text"
                                         /\ i \in Range(st.heap[sec].subsections)
            IN  IF "section_text" \in DOMAIN d /\ attached("section_text")
                THEN [d EXCEPT !.section_text = Strip(@)]
                ELSE IF "subsection_text" \in DOMAIN d /\ attached("subsection_text")
                THEN [d EXCEPT !.subsection_text = Strip(@)]
                ELSE d]]


\* Fresh that keeps the locals an earlier call left
Stale(st) == st

\* the locals at the start of a call of parse_legal_document, st being those
\* an earlier call left: they are created anew
Fresh(st) == InitialBuilder

\* ------------------------------------------------------------------------
\* The snapshot handed from stage to stage, and the input streams
\* ------------------------------------------------------------------------

VARIABLES
    doc,                  \* the document as JSON: nested dicts and lists
    issues,               \* the issue strings of validate_structure
    chunks                \* the chunk list of flatten_to_rag_chunks

VARIABLES
    argument,             \* the arguments of a call of one function alone
    result                \* what that call returned

\* the variables of a call of one function
call_vars == <<argument, result>>

VARIABLES
    previous              \* the Document and the chunks of the run before, if any

VARIABLES
    written,              \* the snapshots saved so far: "raw", "clean", "final"
    exit_code             \* <<c>> once main of parse_document.py returned c

\* the variables of the pipeline driver
driver_vars == <<written, exit_code>>

vars == <<elements, idx, pc, document, heap, current_part, current_section,
          current_subsection, current_schedule, pending_part_text,
          pending_part_number, doc, issues, chunks, argument, result, previous,
          written, exit_code>>

\* json.dump of the builder's document: every reference is written out as
\* the dict it points to
Serialize(d, h) ==
    LET paragraph(i) == h[i]
        subsection(i) == [h[i] EXCEPT !.paragraphs =
                              [k \in DOMAIN @ |-> paragraph(@[k])]]
        section(i) == [h[i] EXCEPT !.subsections =
                           [k \in DOMAIN @ |-> subsection(@[k])]]
        part(i) == [h[i] EXCEPT !.sections = [k \in DOMAIN @ |-> section(@[k])]]
    IN  [d EXCEPT !.parts = [k \in DOMAIN @ |-> part(@[k])],
                  !.schedules = [k \in DOMAIN @ |-> h[@[k]]]]

\* ------------------------------------------------------------------------
\* JSON documents: a dict is a function on its keys, a list a sequence, a
\* string a sequence of characters; null, "" and [] are all <<>>
\* ------------------------------------------------------------------------

\* d.get(k, default)
Get(d, k, default) == IF k \in DOMAIN d THEN d[k] ELSE default

\* d.pop(k, None)
Pop(d, k) == [x \in DOMAIN d \ {k} |-> d[x]]

\* str(n) for a natural number n
RECURSIVE IntToStr(_)
IntToStr(n) ==
    IF n < 10 THEN <<SubSeq(<<"0","1","2","3","4","5","6","7","8","9">>, n + 1, n + 1)[1]>>
    ELSE IntToStr(n \div 10) \o IntToStr(n % 10)

\* sum(list) for a list of numbers
RECURSIVE Sum(_)
Sum(list) == IF list = <<>> THEN 0 ELSE Head(list) + Sum(Tail(list))

\* separator.join(list) for a list of strings
RECURSIVE Join(_, _)
Join(separator, list) ==
    IF list = <<>> THEN <<>>
    ELSE IF Len(list) = 1 THEN list[1]
    ELSE list[1] \o separator \o Join(separator, Tail(list))

\* the concatenation of a list of lists
RECURSIVE Flatten(_)
Flatten(lists) == IF lists = <<>> THEN <<>> ELSE Head(lists) \o Flatten(Tail(lists))

\* ------------------------------------------------------------------------
\* The Post-Processor (data/parsers/post_processor.py)
\* ------------------------------------------------------------------------

\* str(document.get("act_name", "")): null prints as None
ActNameStr(d) ==
    IF Get(d, "act_name", <<>>) = None THEN <<"N","o","n","e">>
    ELSE d.act_name

\* "S.O. 2006, c. 17"
DefaultCitation == <<"S",".","O","."," ","2","0","0","6",","," ","c","."," ","1","7">>

\* "https://www.ontario.ca/laws/statute/06r17"
SourceUrl ==
    <<"h","t","t","p","s",":","/","/","w","w","w",".","o","n","t","a","r","i","o",".","c","a",
      "/","l","a","w","s","/","s","t","a","t","u","t","e","/","0","6","r","1","7">>

\* add_metadata(document)
add_metadata(d) ==
    ("source_url" :> SourceUrl)
    @@ ("metadata" :> [processed_date |-> None, version |-> <<"1",".","0">>,
                       parser |-> <<"u","n","s","t","r","u","c","t","u","r","e","d","-",
                                    "d","o","c","x">>])
    @@ (IF Get(d, "citation", None) = None
           /\ Contains(ActNameStr(d), <<"2","0","0","6">>)
        THEN ("citation" :> DefaultCitation) ELSE <<>>)
    @@ d

\* Counted for a counter that forgets what it has seen
Counted_forgetful(section_counter, section_num) == 0

\* section_counter[section_num] of the defaultdict(int)
Counted(section_counter, section_num) ==
    IF section_num \in DOMAIN section_counter THEN section_counter[section_num] ELSE 0

\* Renumbered with the occurrence itself as the suffix
Renumbered_from_two(section, section_num, occurrence) ==
    IF occurrence > 1
    THEN WithKey(section, "section_number", section_num \o <<".">> \o IntToStr(occurrence))
    ELSE section

\* the section after one iteration of the inner loop, given its occurrence
Renumbered(section, section_num, occurrence) ==
    IF occurrence > 1
    THEN WithKey(section, "section_number",
                 section_num \o <<".">> \o IntToStr(occurrence - 1))
    ELSE section

\* the inner loop of fix_duplicate_section_numbers over the sections of one
\* Part, from the counter section_counter
RECURSIVE renumber_sections(_, _)
renumber_sections(sections, section_counter) ==
    IF sections = <<>> THEN <<>>
    ELSE IF Contains(Get(Head(sections), "section_number", <<>>), <<".">>)
    THEN <<Head(sections)>> \o renumber_sections(Tail(sections), section_counter)
    ELSE <<Renumbered(Head(sections), Get(Head(sections), "section_number", <<>>),
                      Counted(section_counter, Get(Head(sections), "section_number", <<>>)) + 1)>>
         \o renumber_sections(Tail(sections),
               (Get(Head(sections), "section_number", <<>>)
                  :> (Counted(section_counter, Get(Head(sections), "section_number", <<>>)) + 1))
               @@ section_counter)

\* fix_duplicate_section_numbers(parts): the parts after the call
fix_duplicate_section_numbers(parts) ==
    [i \in DOMAIN parts |->
        IF Get(parts[i], "sections", <<>>) = <<>> THEN parts[i]
        ELSE [parts[i] EXCEPT !.sections = renumber_sections(@, <<>>)]]

\* \.\s+(\d+)\s+([A-Z].*)$, the groups 2 and 3 between the marks
MergedTitlePattern ==
    << <<"lit", <<".">> >>, <<"plus", "space">>,
       <<"mark", "number">>, <<"plus", "digit">>, <<"mark", "number_end">>,
       <<"plus", "space">>, <<"mark", "rest">>, <<"one", "upper">>, <<"rest", 0>> >>

\* the indices e of title such that (.+?) can end before e and the rest of
\* the pattern matches from e
MergedTitleEnds(title) ==
    {e \in 2..Len(title) : /\ \A k \in 1..(e - 1) : title[k] # "\n"
                           /\ Scan(title, e, MergedTitlePattern, <<>>).ok}

\* TitleSplit that records the merge anew on every call
TitleSplit_overwriting(section, title, e, m) ==
    ("merge_detected" :>
        [original_title |-> title,
         split_at |-> Group(title, m, "number", "number_end") \o <<" ">>
                      \o GroupToEnd(title, m, "rest")])
    @@ WithKey(section, "section_title", Strip(SubSeq(title, 1, e - 1)))

\* the section with the title cut before index e and the merge recorded
TitleSplit(section, title, e, m) ==
    (IF "merge_detected" \notin DOMAIN section
     THEN ("merge_detected" :>
              [original_title |-> title,
               split_at |-> Group(title, m, "number", "number_end") \o <<" ">>
                            \o GroupToEnd(title, m, "rest")])
     ELSE <<>>)
    @@ WithKey(section, "section_title", Strip(SubSeq(title, 1, e - 1)))

\* the body of the loop of split_merged_section_titles for one section whose
\* title matches with (.+?) ending before one of the indices ends: re.search
\* of r'^(.+?)\.\s+(\d+)\s+([A-Z].*)$' takes the least
SplitAt(section, title, ends) ==
    IF ends = {} THEN section
    ELSE TitleSplit(section, title, Leftmost(ends),
                    Scan(title, Leftmost(ends), MergedTitlePattern, <<>>))

\* split_merged_section_titles(parts): the parts after the call
split_merged_section_titles(parts) ==
    [i \in DOMAIN parts |->
        IF "sections" \notin DOMAIN parts[i] THEN parts[i]
        ELSE [parts[i] EXCEPT !.sections =
                [j \in DOMAIN @ |->
                    SplitAt(@[j], Get(@[j], "section_title", <<>>),
                            MergedTitleEnds(Get(@[j], "section_title", <<>>)))]]]

\* the first index of text where two white space characters stand side by
\* side, Len(text) + 1 when there is none
PairStart(text) ==
    CHOOSE k \in 1..(Len(text) + 1) :
        /\ (k = Len(text) + 1 \/ (k < Len(text) /\ IsSpace(text[k]) /\ IsSpace(text[k + 1])))
        /\ \A j \in 1..(k - 1) : ~(j < Len(text) /\ IsSpace(text[j]) /\ IsSpace(text[j + 1]))

\* CollapseSpaces for the pattern \s\s: every pair of white space characters
\* becomes one space
RECURSIVE CollapsePairs(_)
CollapsePairs(text) ==
    IF PairStart(text) > Len(text) THEN text
    ELSE SubSeq(text, 1, PairStart(text) - 1) \o <<" ">>
         \o CollapsePairs(From(text, PairStart(text) + 2))

\* \S of re
NotSpace(c) == ~IsSpace(c)

\* re.sub(r'\s+', ' ', text): every white space run becomes one space
RECURSIVE CollapseSpaces(_)
CollapseSpaces(text) ==
    IF text = <<>> THEN <<>>
    ELSE IF IsSpace(text[1])
    THEN <<" ">> \o CollapseSpaces(From(text, RunEnd(text, 1, "space")))
    ELSE SubSeq(text, 1, SpanEnd(text, 1, NotSpace) - 1)
         \o CollapseSpaces(From(text, SpanEnd(text, 1, NotSpace)))

\* re.sub(r'\s+', ' ', text).strip()
Normalized(text) == Strip(CollapseSpaces(text))

\* d with the text under key k normalized when d.get(k) is truthy
CleanKey(d, k) ==
    IF Get(d, k, <<>>) # <<>> THEN [d EXCEPT ![k] = Normalized(@)] ELSE d

\* d with the function f applied to each element of its list under key k,
\* when it has one
MapList(d, k, f(_)) ==
    IF k \in DOMAIN d THEN [d EXCEPT ![k] = [i \in DOMAIN @ |-> f(@[i])]] ELSE d

\* the loop bodies of clean_section_text_whitespace
clean_paragraph(paragraph) == CleanKey(paragraph, "text")

clean_subsection(subsection) ==
    MapList(CleanKey(subsection, "subsection_text"), "paragraphs", clean_paragraph)

clean_section(section) ==
    MapList(CleanKey(CleanKey(section, "section_text"), "section_title"),
            "subsections", clean_subsection)

clean_part(part) ==
    MapList(IF "description" \in DOMAIN part
            THEN [part EXCEPT !.description = Normalized(@)] ELSE part,
            "sections", clean_section)

\* clean_section_text_whitespace(parts): the parts after the call
clean_section_text_whitespace(parts) == [i \in DOMAIN parts |-> clean_part(parts[i])]

\* d without the key k when d.get(k) is falsy
DropEmpty(d, k) == IF Get(d, k, <<>>) = <<>> THEN Pop(d, k) ELSE d

\* the loop bodies of remove_empty_fields
prune_subsection(subsection) ==
    DropEmpty(DropEmpty(subsection, "subsection_text"), "paragraphs")

prune_section(section) ==
    MapList(DropEmpty(section, "section_text"), "subsections", prune_subsection)

prune_part(part) == MapList(part, "sections", prune_section)

\* remove_empty_fields(parts): the parts after the call
remove_empty_fields(parts) == [i \in DOMAIN parts |-> prune_part(parts[i])]

\* the issues of validate_structure for the required fields
required_field_issues(d) ==
    Flatten([i \in 1..3 |->
        IF ~(<<"act_name", "jurisdiction", "parts">>[i] \in DOMAIN d)
           \/ d[<<"act_name", "jurisdiction", "parts">>[i]] = <<>>
        THEN << <<"Missing required field: ", <<"act_name", "jurisdiction", "parts">>[i]>> >>
        ELSE <<>>])

\* the issues of validate_structure for the Part at index i (enumerate
\* counts from 0)
part_issues(parts, i) ==
    IF "sections" \notin DOMAIN parts[i]
    THEN << <<"Part ", i - 1, " missing 'sections' field">> >>
    ELSE Flatten([j \in DOMAIN parts[i].sections |->
            IF "section_number" \notin DOMAIN parts[i].sections[j]
            THEN << <<"Part ", i - 1, ", Section ", j - 1, " missing 'section_number'">> >>
            ELSE <<>>])

\* counted_sections that counts the Parts
counted_parts(parts) == Len(parts)

\* total_sections of validate_structure
counted_sections(parts) ==
    Sum([i \in DOMAIN parts |->
            IF "sections" \in DOMAIN parts[i] THEN Len(parts[i].sections) ELSE 0])

\* validate_structure(document): the list of issues
validate_structure(d) ==
    required_field_issues(d)
    \o (IF Get(d, "parts", <<>>) = <<>>
        THEN << <<"No parts found in document">> >> ELSE <<>>)
    \o Flatten([i \in DOMAIN Get(d, "parts", <<>>) |->
                   part_issues(d.parts, i)])
    \o (IF counted_sections(Get(d, "parts", <<>>)) = 0
        THEN << <<"No sections found in document">> >> ELSE <<>>)

\* ------------------------------------------------------------------------
\* The Enhancer (data/parsers/enhancer.py)
\* ------------------------------------------------------------------------

\* f"{part_number}.{section_number}"
SectionId(part_number, section_number) == part_number \o <<".">> \o section_number

\* f"{part_number}.{section_number}.{subsection_number}"
SubsectionId(part_number, section_number, subsection_number) ==
    part_number \o <<".">> \o section_number \o <<".">> \o subsection_number

\* section_with_ids that keeps an id the dict already holds
section_with_ids_kept(part_number, section) ==
    MapList(WithKey(section, "section_id",
                    Get(section, "section_id",
                        SectionId(part_number, section.section_number))),
            "subsections",
            LAMBDA subsection :
                WithKey(subsection, "subsection_id",
                        Get(subsection, "subsection_id",
                            SubsectionId(part_number, section.section_number,
                                         subsection.subsection_number))))

\* the body of the section loop of add_hierarchical_section_ids
section_with_ids(part_number, section) ==
    MapList(WithKey(section, "section_id", SectionId(part_number, section.section_number)),
            "subsections",
            LAMBDA subsection :
                WithKey(subsection, "subsection_id",
                        SubsectionId(part_number, section.section_number,
                                     subsection.subsection_number)))

\* add_hierarchical_section_ids(document): the document after the call
add_hierarchical_section_ids(d) ==
    [d EXCEPT !.parts =
        [i \in DOMAIN @ |->
            [@[i] EXCEPT !.sections =
                [j \in DOMAIN @ |-> section_with_ids(d.parts[i].part_number, @[j])]]]]

\* "([^"]+)"[^(]*\("([^)]+)"\)
BilingualPattern ==
    << <<"lit", <<Quote>> >>, <<"mark", "english">>, <<"plus", "not_quote">>,
       <<"mark", "english_end">>, <<"lit", <<Quote>> >>, <<"star", "not_open">>,
       <<"lit", <<"(", Quote>> >>, <<"mark", "french">>,
       <<"plus_back", "not_close", <<Quote, ")">> >>, <<"mark", "french_end">>,
       <<"lit", <<Quote, ")">> >> >>

\* the first index from i on where the pattern matches, Len(text) + 1 when
\* it matches nowhere
NextMatch(text, i, pattern) ==
    CHOOSE j \in i..(Len(text) + 1) :
        /\ (j = Len(text) + 1 \/ Scan(text, j, pattern, <<>>).ok)
        /\ \A k \in i..(j - 1) : ~Scan(text, k, pattern, <<>>).ok

\* re.findall(pattern, text) from index i on: the matches, left to right and
\* not overlapping
RECURSIVE FindAll(_, _, _)
FindAll(text, i, pattern) ==
    IF NextMatch(text, i, pattern) > Len(text) THEN <<>>
    ELSE <<Scan(text, NextMatch(text, i, pattern), pattern, <<>>)>>
         \o FindAll(text, Scan(text, NextMatch(text, i, pattern), pattern, <<>>).pos, pattern)

\* the terms extract_bilingual_terms appends for one section of a Part
section_terms(part, section) ==
    [k \in DOMAIN FindAll(Get(section, "section_text", <<>>), 1, BilingualPattern) |->
        [english |-> Strip(Group(Get(section, "section_text", <<>>),
                                 FindAll(Get(section, "section_text", <<>>), 1, BilingualPattern)[k],
                                 "english", "english_end")),
         french |-> Strip(Group(Get(section, "section_text", <<>>),
                                FindAll(Get(section, "section_text", <<>>), 1, BilingualPattern)[k],
                                "french", "french_end")),
         section_id |-> Get(section, "section_id",
                            SectionId(part.part_number, section.section_number))]]

\* extract_bilingual_terms(document): the document after the call
extract_bilingual_terms(d) ==
    WithKey(d, "bilingual_terms",
        Flatten([i \in DOMAIN d.parts |->
            Flatten([j \in DOMAIN d.parts[i].sections |->
                section_terms(d.parts[i], d.parts[i].sections[j])])]))

\* the threshold above which estimate_token_counts recommends chunking
ChunkingThreshold == 1500

\* len(text) // 4
estimate_tokens(text) == Len(text) \div 4

\* the body of the section loop of estimate_token_counts
section_with_tokens(section) ==
    MapList(WithKey(section, "estimated_tokens",
                    estimate_tokens(Get(section, "section_text", <<>>))),
            "subsections",
            LAMBDA subsection :
                WithKey(subsection, "estimated_tokens",
                        estimate_tokens(Get(subsection, "subsection_text", <<>>))))

\* the recommendation with the threshold itself counted as large
recommendation_at_threshold(section) ==
    IF estimate_tokens(Get(section, "section_text", <<>>)) >= ChunkingThreshold
    THEN << [section_id |-> Get(section, "section_id", None),
             section_number |-> section.section_number,
             section_title |-> section.section_title,
             estimated_tokens |-> estimate_tokens(Get(section, "section_text", <<>>)),
             recommendation |-> "Split by subsections for better retrieval"] >>
    ELSE <<>>

\* the chunking recommendation of estimate_token_counts for one section
recommendation(section) ==
    IF estimate_tokens(Get(section, "section_text", <<>>)) > ChunkingThreshold
    THEN << [section_id |-> Get(section, "section_id", None),
             section_number |-> section.section_number,
             section_title |-> section.section_title,
             estimated_tokens |-> estimate_tokens(Get(section, "section_text", <<>>)),
             recommendation |-> "Split by subsections for better retrieval"] >>
    ELSE <<>>

\* chunking_recommendations of estimate_token_counts
chunking_recommendations(d) ==
    Flatten([i \in DOMAIN d.parts |->
        Flatten([j \in DOMAIN d.parts[i].sections |->
            recommendation(d.parts[i].sections[j])])])

\* estimate_token_counts(document): the document after the call
estimate_token_counts(d) ==
    (IF chunking_recommendations(d) # <<>>
     THEN ("metadata" :> WithKey(Get(d, "metadata", <<>>), "chunking_recommendations",
                                 chunking_recommendations(d)))
     ELSE <<>>)
    @@ [d EXCEPT !.parts =
          [i \in DOMAIN @ |->
              [@[i] EXCEPT !.sections = [j \in DOMAIN @ |-> section_with_tokens(@[j])]]]]

\* [s["section_title"] for s in sections if s.get("section_title")]
RECURSIVE titled(_)
titled(sections) ==
    IF sections = <<>> THEN <<>>
    ELSE (IF Get(Head(sections), "section_title", <<>>) # <<>>
          THEN <<Head(sections).section_title>> ELSE <<>>) \o titled(Tail(sections))

\* list[:n]
Prefix(list, n) == SubSeq(list, 1, IF Len(list) < n THEN Len(list) ELSE n)

\* the number of sections add_part_summaries looks at, and of titles it lists
SummarySections == 3
SummaryTitles == 2

\* f"Covers: {', '.join(first_section_titles[:2])}"
summary_hint(sections) ==
    <<"C","o","v","e","r","s",":"," ">>
    \o Join(<<",", " ">>, Prefix(titled(Prefix(sections, SummarySections)), SummaryTitles))

\* the body of the loop of add_part_summaries
part_with_summary(part) ==
    ("total_sections" :> Len(Get(part, "sections", <<>>)))
    @@ ("total_subsections" :>
           Sum([j \in DOMAIN Get(part, "sections", <<>>) |->
                   Len(Get(part.sections[j], "subsections", <<>>))]))
    @@ (IF Get(part, "sections", <<>>) # <<>>
        THEN ("summary_hint" :> summary_hint(part.sections)) ELSE <<>>)
    @@ part

\* add_part_summaries(document): the document after the call
add_part_summaries(d) ==
    [d EXCEPT !.parts = [i \in DOMAIN @ |-> part_with_summary(@[i])]]

\* sum(len(part['sections']) for part in document['parts'])
total_sections(d) == Sum([i \in DOMAIN d.parts |-> Len(d.parts[i].sections)])

\* the sum of len(section.get('subsections', [])) over all sections
total_subsections(d) ==
    Sum([i \in DOMAIN d.parts |->
        Sum([j \in DOMAIN d.parts[i].sections |->
            Len(Get(d.parts[i].sections[j], "subsections", <<>>))])])

\* the sum of len(section.get('section_text', '')) over all sections
total_text(d) ==
    Sum([i \in DOMAIN d.parts |->
        Sum([j \in DOMAIN d.parts[i].sections |->
            Len(Get(d.parts[i].sections[j], "section_text", <<>>))])])

\* add_retrieval_metadata with the metadata block assigned anew
add_retrieval_metadata_replacing(d) ==
    WithKey(d, "metadata",
        [total_parts |-> Len(d.parts),
         total_sections |-> total_sections(d),
         total_subsections |-> total_subsections(d),
         total_characters |-> total_text(d),
         estimated_total_tokens |-> total_text(d) \div 4,
         recommended_chunk_strategy |-> "section or subsection level",
         optimal_for |-> <<"semantic search", "RAG retrieval", "legal citation lookup">>])

\* add_retrieval_metadata(document): the document after the call
add_retrieval_metadata(d) ==
    WithKey(d, "metadata",
        [total_parts |-> Len(d.parts),
         total_sections |-> total_sections(d),
         total_subsections |-> total_subsections(d),
         total_characters |-> total_text(d),
         estimated_total_tokens |-> total_text(d) \div 4,
         recommended_chunk_strategy |-> "section or subsection level",
         optimal_for |-> <<"semantic search", "RAG retrieval", "legal citation lookup">>]
        @@ Get(d, "metadata", <<>>))

\* the five passes of enhance_document, in its order
enhance_document(d) ==
    add_retrieval_metadata(add_part_summaries(estimate_token_counts(
        extract_bilingual_terms(add_hierarchical_section_ids(d)))))

\* ------------------------------------------------------------------------
\* The Flattener (scripts/flatten_for_rag.py) and its configuration
\* (config.py)
\* ------------------------------------------------------------------------

JURISDICTION_ABBR == <<"O","N","T">>
ACT_ABBR == <<"R","T","A","_","2","0","0","6">>
MIN_CHUNK_LENGTH == 20

\* s.strip("()")
StripParentheses(s) ==
    SubSeq(s, RunEnd(s, 1, "parenthesis"),
           IF RunEnd(s, 1, "parenthesis") > Len(s) THEN 0
           ELSE CHOOSE j \in 1..Len(s) :
                   /\ ~InClass(s[j], "parenthesis")
                   /\ \A k \in (j + 1)..Len(s) : InClass(s[k], "parenthesis"))

\* generate_chunk_id that leaves the subsection number out
generate_chunk_id_of_section(jurisdiction_abbr, act_abbr, part_num, section_num, subsection_num) ==
    Join(<<"_">>, <<jurisdiction_abbr, act_abbr, part_num, section_num>>)

\* generate_chunk_id(jurisdiction_abbr, act_abbr, part_num, section_num,
\* subsection_num), subsection_num being None for a section chunk
generate_chunk_id(jurisdiction_abbr, act_abbr, part_num, section_num, subsection_num) ==
    IF subsection_num # None
    THEN Join(<<"_">>, <<jurisdiction_abbr, act_abbr, part_num, section_num,
                         StripParentheses(subsection_num)>>)
    ELSE Join(<<"_">>, <<jurisdiction_abbr, act_abbr, part_num, section_num>>)

\* the metadata every chunk of a section of a Part carries
chunk_metadata(d, part, section) ==
    [act_name |-> Get(d, "act_name", <<>>),
     jurisdiction |-> Get(d, "jurisdiction", <<>>),
     citation |-> Get(d, "citation", <<>>),
     part_number |-> Get(part, "part_number", <<>>),
     part_title |-> Get(part, "part_title", <<>>),
     section_id |-> Get(section, "section_id", <<>>),
     section_number |-> Get(section, "section_number", <<>>),
     section_title |-> Get(section, "section_title", <<>>),
     source_url |-> Get(d, "source_url", <<>>)]

\* WithFirstAmendment that prefers the last of the records
WithLastAmendment(metadata, infos) ==
    IF infos = <<>> THEN metadata
    ELSE IF infos[Len(infos)] # NoInfo
    THEN WithKey(metadata, "amendment_info", infos[Len(infos)])
    ELSE IF Head(infos) # NoInfo THEN WithKey(metadata, "amendment_info", Head(infos))
    ELSE metadata

\* metadata with amendment_info set to the first of the records that is one
WithFirstAmendment(metadata, infos) ==
    IF infos = <<>> THEN metadata
    ELSE IF Head(infos) # NoInfo THEN WithKey(metadata, "amendment_info", Head(infos))
    ELSE IF Len(infos) > 1 /\ infos[2] # NoInfo
    THEN WithKey(metadata, "amendment_info", infos[2])
    ELSE metadata

\* TooShort with <= for <
TooShort_or_equal(text) == Len(text) <= MIN_CHUNK_LENGTH

\* not text or len(text) < MIN_CHUNK_LENGTH
TooShort(text) == Len(text) < MIN_CHUNK_LENGTH

\* subsection_chunks that puts the texts of the Paragraphs of the subsection
\* after its own text
subsection_chunks_with_paragraphs(d, part, section, subsection) ==
    IF TooShort(Get(subsection, "subsection_text", <<>>)) THEN <<>>
    ELSE << [id |-> generate_chunk_id(JURISDICTION_ABBR, ACT_ABBR,
                        Get(part, "part_number", <<>>), Get(section, "section_number", <<>>),
                        Get(subsection, "subsection_number", <<>>)),
             text |-> subsection.subsection_text
                      \o Flatten([k \in DOMAIN Get(subsection, "paragraphs", <<>>) |->
                                     <<" ">> \o subsection.paragraphs[k].text]),
             metadata |-> WithFirstAmendment(
                 [subsection_number |-> Get(subsection, "subsection_number", <<>>),
                  tokens |-> estimate_tokens(subsection.subsection_text),
                  chunk_type |-> "subsection"] @@ chunk_metadata(d, part, section),
                 <<Get(subsection, "amendment_info", NoInfo),
                   Get(section, "amendment_info", NoInfo)>>)] >>

\* the chunks of one subsection: none when its text is short
subsection_chunks(d, part, section, subsection) ==
    IF TooShort(Get(subsection, "subsection_text", <<>>)) THEN <<>>
    ELSE << [id |-> generate_chunk_id(JURISDICTION_ABBR, ACT_ABBR,
                        Get(part, "part_number", <<>>), Get(section, "section_number", <<>>),
                        Get(subsection, "subsection_number", <<>>)),
             text |-> subsection.subsection_text,
             metadata |-> WithFirstAmendment(
                 [subsection_number |-> Get(subsection, "subsection_number", <<>>),
                  tokens |-> estimate_tokens(subsection.subsection_text),
                  chunk_type |-> "subsection"] @@ chunk_metadata(d, part, section),
                 <<Get(subsection, "amendment_info", NoInfo),
                   Get(section, "amendment_info", NoInfo)>>)] >>

\* section_chunks that falls back to the Section itself when none of its
\* Subsections gives a chunk
section_chunks_with_fallback(d, part, section) ==
    IF Get(section, "subsections", <<>>) # <<>>
       /\ \E k \in DOMAIN section.subsections :
             ~TooShort(Get(section.subsections[k], "subsection_text", <<>>))
    THEN Flatten([k \in DOMAIN section.subsections |->
                     subsection_chunks(d, part, section, section.subsections[k])])
    ELSE IF TooShort(Get(section, "section_text", <<>>)) THEN <<>>
    ELSE << [id |-> generate_chunk_id(JURISDICTION_ABBR, ACT_ABBR,
                        Get(part, "part_number", <<>>), Get(section, "section_number", <<>>),
                        None),
             text |-> section.section_text,
             metadata |-> WithFirstAmendment(
                 [tokens |-> estimate_tokens(section.section_text),
                  chunk_type |-> "section"] @@ chunk_metadata(d, part, section),
                 <<Get(section, "amendment_info", NoInfo)>>)] >>

\* the chunks of one section: those of its subsections when it has any,
\* else its own when its text is long enough
section_chunks(d, part, section) ==
    IF Get(section, "subsections", <<>>) # <<>>
    THEN Flatten([k \in DOMAIN section.subsections |->
                     subsection_chunks(d, part, section, section.subsections[k])])
    ELSE IF TooShort(Get(section, "section_text", <<>>)) THEN <<>>
    ELSE << [id |-> generate_chunk_id(JURISDICTION_ABBR, ACT_ABBR,
                        Get(part, "part_number", <<>>), Get(section, "section_number", <<>>),
                        None),
             text |-> section.section_text,
             metadata |-> WithFirstAmendment(
                 [tokens |-> estimate_tokens(section.section_text),
                  chunk_type |-> "section"] @@ chunk_metadata(d, part, section),
                 <<Get(section, "amendment_info", NoInfo)>>)] >>

\* flatten_to_rag_chunks(document): the list of chunks
flatten_to_rag_chunks(d) ==
    Flatten([i \in DOMAIN Get(d, "parts", <<>>) |->
        Flatten([j \in DOMAIN Get(d.parts[i], "sections", <<>>) |->
            section_chunks(d, d.parts[i], d.parts[i].sections[j])])])

\* the fragments of the input streams
Narrative(text) == [category |-> "NarrativeText", text |-> text]

\* "PART I - INTRODUCTION"
PartIHeader == <<"P","A","R","T"," ","I"," ","-"," ","I","N","T","R","O","D","U","C","T","I","O","N">>
\* "PART II – RIGHTS", with an en dash
PartIIHeader == <<"P","A","R","T"," ","I","I"," ","u2013"," ","R","I","G","H","T","S">>
\* "part iii"
PartNumberOnly == <<"p","a","r","t"," ","i","i","i">>
\* "SCHEDULE A – FORMS", with an en dash
ScheduleHeader == <<"S","C","H","E","D","U","L","E"," ","A"," ","u2013"," ","F","O","R","M","S">>
\* "1. Purposes of Act"
SectionHeader == <<"1","."," ","P","u","r","p","o","s","e","s"," ","o","f"," ","A","c","t">>
\* "5. Rent"
SectionFive == <<"5","."," ","R","e","n","t">>
\* "This Act applies to..."
PlainText == <<"T","h","i","s"," ","A","c","t"," ","a","p","p","l","i","e","s"," ","t","o",".",".",".">>
\* "see the form"
Prose == <<"s","e","e"," ","t","h","e"," ","f","o","r","m">>
\* "(1) The purposes are"
SubsectionMarker == <<"(","1",")"," ","T","h","e"," ","p","u","r","p","o","s","e","s"," ","a","r","e">>
\* "(a) to protect tenants"
ParagraphA == <<"(","a",")"," ","t","o"," ","p","r","o","t","e","c","t"," ","t","e","n","a","n","t","s">>
\* "(b) to balance rights"
ParagraphB == <<"(","b",")"," ","t","o"," ","b","a","l","a","n","c","e"," ","r","i","g","h","t","s">>
\* "and so on. PART IV - BOARD"
MergedPart == <<"a","n","d"," ","s","o"," ","o","n","."," ","P","A","R","T"," ","I","V"," ","-"," ","B","O","A","R","D">>
\* "2013, c. 3, s. 20"
Citation == <<"2","0","1","3",","," ","c","."," ","3",","," ","s","."," ","2","0">>
\* "  "
Blank == <<" "," ">>

\* the fragments the general streams are drawn from
Library ==
    {Narrative(t) : t \in {PartIHeader, PartNumberOnly, ScheduleHeader,
                           SectionHeader, SectionFive, PlainText,
                           SubsectionMarker, ParagraphA, MergedPart,
                           Citation, Blank}}

\* the longest general stream
MaxElements == 3

\* every stream of at most n fragments of lib
Streams(lib, n) == UNION {[1..k -> lib] : k \in 0..n}

\* the end-to-end scenario of a Part, a Section, a plain fragment, a
\* Subsection and two Paragraphs, for each plain fragment
PlainFragments == {PlainText, Prose}

PartScenario(plain) ==
    <<Narrative(PartIHeader), Narrative(SectionHeader), Narrative(plain),
      Narrative(SubsectionMarker), Narrative(ParagraphA), Narrative(ParagraphB)>>

\* the end-to-end scenario of a Schedule, two prose fragments and a Part
ProseFragments == {PlainText, Prose, SectionFive, ParagraphA}

ScheduleScenario(p1, p2) ==
    <<Narrative(ScheduleHeader), Narrative(p1), Narrative(p2),
      Narrative(PartIIHeader)>>

\* "see above part ii – rent": a merged Part header in lower case with an
\* en dash
MergedLowerPart ==
    <<"s","e","e"," ","a","b","o","v","e"," ","p","a","r","t"," ","i","i"," ",
      EnDash," ","r","e","n","t">>

\* the fragments before a merged one: nothing, a Part, a Section, a
\* Subsection, a Paragraph
Contexts ==
    {<<>>, <<Narrative(PartIHeader)>>, <<Narrative(SectionHeader)>>,
     <<Narrative(SectionHeader), Narrative(SubsectionMarker)>>,
     <<Narrative(SectionHeader), Narrative(SubsectionMarker), Narrative(ParagraphA)>>}

\* the scenario of a fragment that ends with a merged Part header, in each
\* context, followed by a blank fragment or not and by one more fragment
MergedScenarios ==
    {context \o <<Narrative(merged)>> \o gap \o <<Narrative(next)>> :
        context \in Contexts, merged \in {MergedPart, MergedLowerPart},
        gap \in {<<>>, <<Narrative(Blank)>>}, next \in {SectionFive, PlainText}}

\* "PART 2 - FORMS": a single-line Part header with an integer numeral
PartTwoHeader == <<"P","A","R","T"," ","2"," ","-"," ","F","O","R","M","S">>
\* "part 2": a Part number alone, an integer
PartTwoOnly == <<"p","a","r","t"," ","2">>
\* "part in force": prose that starts with the word "part"
PartProse == <<"p","a","r","t"," ","i","n"," ","f","o","r","c","e">>

\* the scenario of a Schedule header followed by a fragment that starts
\* with the word "part" and by one more fragment
PartFragments == {PartTwoHeader, PartTwoOnly, PartProse}

PartInScheduleScenarios ==
    {<<Narrative(ScheduleHeader), Narrative(part), Narrative(next)>> :
        part \in PartFragments, next \in {SectionFive, PlainText}}

\* the scenario of a Part or a Section, a Schedule, the prose that closes
\* the Schedule and a Section header
ClosedScheduleScenarios ==
    {<<Narrative(first), Narrative(ScheduleHeader), Narrative(PartProse),
       Narrative(SectionFive)>> : first \in {PartIHeader, SectionHeader}}

\* "S.O. 2007"
LaterCitation == <<"S",".","O","."," ","2","0","0","7">>

\* the scenarios of the head of an Act: fragments with the marker of the
\* act name, with the marker of the citation, with both and with none
MarkerFragments ==
    {PlainText, DefaultCitation, LaterCitation, DefaultCitation \o <<" ">> \o PlainText,
     Prose}

MetadataScenarios ==
    {<<Narrative(f1), Narrative(f2)>> : f1 \in MarkerFragments, f2 \in MarkerFragments}

\* '"landlord" means an owner'
DefinitionFragment ==
    <<Quote,"l","a","n","d","l","o","r","d",Quote," ","m","e","a","n","s"," ",
      "a","n"," ","o","w","n","e","r">>
\* "PART IV 2013, c. 3, s. 20": a citation that starts like a Part header
PartCitation == <<"P","A","R","T"," ","I","V"," ">> \o Citation

\* the scenarios of a fragment the loop drops as noise or stores as a
\* Definition, in each context and inside a Schedule, and one more fragment
NoiseFragments ==
    {SectionAmendmentsHeader, Citation, DefinitionFragment, PartCitation}

NoiseScenarios ==
    {context \o <<Narrative(noise), Narrative(Prose)>> :
        context \in Contexts \cup {<<Narrative(ScheduleHeader)>>},
        noise \in NoiseFragments}

\* "2017, c. 13": a citation of a year and a chapter
ChapterCitation == <<"2","0","1","7",","," ","c","."," ","1","3">>
\* a body of as many characters as the cap of the standalone citations
LongBody == [i \in 1..StandaloneAmendmentMaxLength |-> "x"]

\* Section headers and Subsection markers that end with a citation, short
\* and long
CitedSections ==
    {<<"5","."," ">> \o body \o <<" ">> \o ChapterCitation :
        body \in {<<"R","e","n","t">>, LongBody}}

CitedSubsections ==
    {<<"(","1",")"," ">> \o body \o <<" ">> \o ChapterCitation :
        body \in {<<"R","e","n","t">>, LongBody}}

\* the scenarios of such a fragment, with a Section open or not, and one
\* more fragment
CitedScenarios ==
    {context \o <<Narrative(cited), Narrative(Prose)>> :
        context \in {<<>>, <<Narrative(SectionHeader)>>},
        cited \in CitedSections \cup CitedSubsections}

\* "2013 amendments": a line that starts with a year
YearLine == <<"2","0","1","3"," ","a","m","e","n","d","m","e","n","t","s">>
\* "5. Rent, c. 3,s. 20": a chapter and a section without a year, one
\* character between them
ChapterLine ==
    <<"5","."," ","R","e","n","t",","," ","c","."," ","3",",","s","."," ","2","0">>
\* "5. Rent, c. 3, s. 20": the same with two characters between them
SpacedChapterLine ==
    <<"5","."," ","R","e","n","t",","," ","c","."," ","3",","," ","s","."," ","2","0">>

\* the scenarios of a fragment that reads like a Section header and is an
\* amendment entry, with nothing open or a Subsection open, and one more
\* fragment
AmendmentScenarios ==
    {context \o <<Narrative(entry), Narrative(Prose)>> :
        context \in {<<>>, <<Narrative(SectionHeader), Narrative(SubsectionMarker)>>},
        entry \in {YearLine, ChapterLine, SpacedChapterLine, Citation,
                   <<"2","0","1","3",".">>}}

\* the scenarios of a number that comes twice: a Section with two
\* Subsections "(1)", and two Parts "I" with a Section "5" each, every text
\* long enough for a chunk
RepeatedScenarios ==
    {<<Narrative(SectionFive), Narrative(SubsectionMarker), Narrative(PlainText),
       Narrative(SubsectionMarker), Narrative(PlainText)>>,
     <<Narrative(PartIHeader), Narrative(SectionFive), Narrative(PlainText),
       Narrative(PartIHeader), Narrative(SectionFive), Narrative(PlainText)>>}

Scenarios ==
    {PartScenario(plain) : plain \in PlainFragments}
    \cup {ScheduleScenario(p1, p2) : p1 \in ProseFragments, p2 \in ProseFragments}
    \cup MergedScenarios
    \cup PartInScheduleScenarios
    \cup ClosedScheduleScenarios
    \cup MetadataScenarios
    \cup NoiseScenarios
    \cup CitedScenarios
    \cup AmendmentScenarios
    \cup RepeatedScenarios

\* ------------------------------------------------------------------------
\* The documents the later stages are started on
\* ------------------------------------------------------------------------

\* a key that a generated dict leaves out
Absent == <<"absent">>

\* the dict {k: v}, empty when v is Absent
Opt(k, v) == IF v = Absent THEN <<>> ELSE (k :> v)

\* a text of n characters
Filler(n) == [i \in 1..n |-> "x"]

\* section numbers as the builder and the duplicate pass produce them
Five == <<"5">>
Seven == <<"7">>
FiveOne == <<"5",".","1">>
SectionNumbers == {Five, Seven, FiveOne}

\* the longest section list of a generated Part
MaxSections == 4

\* a Section with this number and nothing else of interest
NumberedSection(number) ==
    [section_number |-> number, section_title |-> <<"R","e","n","t">>,
     section_text |-> <<>>, subsections |-> <<>>]

\* a Part with this number whose Sections carry these numbers
NumberedPart(part_number, numbers) ==
    [part_number |-> part_number, part_title |-> <<"R","E","N","T">>,
     sections |-> [j \in DOMAIN numbers |-> NumberedSection(numbers[j])]]

\* a raw document with these Parts
RawDocument(parts) == [InitialDocument EXCEPT !.parts = parts]

\* documents of two Parts: every list of at most MaxSections section numbers
\* in the first, the numbers 5, 5 in the second
NumberDocuments ==
    {RawDocument(<<NumberedPart(<<"I">>, numbers), NumberedPart(<<"I","I">>, <<Five, Five>>)>>) :
        numbers \in Streams(SectionNumbers, MaxSections)}

\* texts with white space to normalize
Spaced == <<"a"," "," ","b">>
Ragged == <<" ","a"," ","\n","\t"," ","b"," ">>
Tidy == <<"a"," ","b">>
\* "Notice. 10 Term"
MergedTitle == <<"N","o","t","i","c","e","."," ","1","0"," ","T","e","r","m">>

\* "A. 1 B" and "C" on two lines
BrokenTitle == <<"A","."," ","1"," ","B","\n","C">>

\* "X. 5 Y." and "6 Z" on two lines
NestedTitle == <<"X","."," ","5"," ","Y",".","\n","6"," ","Z">>

\* a document of one Part, one Section, one Subsection and one Paragraph
\* with these texts, each possibly Absent
TextDocument(description, title, section_text, subsection_text, paragraph_text) ==
    RawDocument(<<
        Opt("description", description)
        @@ [part_number |-> <<"I">>, part_title |-> <<"R","E","N","T">>,
            sections |-> <<
                Opt("section_text", section_text)
                @@ [section_number |-> Five, section_title |-> title,
                    subsections |-> <<
                        Opt("subsection_text", subsection_text)
                        @@ [subsection_number |-> <<"(","1",")">>,
                            paragraphs |-> << Opt("text", paragraph_text)
                                              @@ [label |-> <<"(","a",")">>] >>] >>] >>] >>)

TextDocuments ==
    {TextDocument(description, title, section_text, subsection_text, paragraph_text) :
        description \in {Absent, Ragged},
        title \in {Spaced, MergedTitle, BrokenTitle, NestedTitle, <<>>},
        section_text \in {Absent, <<>>, Ragged, Spaced},
        subsection_text \in {Absent, <<>>, Ragged, Tidy},
        paragraph_text \in {Absent, Ragged, Tidy}}

\* the documents the Post-Processor is started on
RawDocuments == NumberDocuments \cup TextDocuments

\* an id left by an earlier run on other numbers
StaleId == <<"I","X",".","9">>
\* 'the "Board" means it; ("Commission")'
BilingualText ==
    <<"t","h","e"," ",Quote,"B","o","a","r","d",Quote," ","m","e","a","n","s"," ","i","t",";",
      " ","(",Quote,"C","o","m","m","i","s","s","i","o","n",Quote,")">>

\* the longest subsection list of a generated Section
MaxSubsections == 2

\* a post-processed document of one Part and one Section with these
\* numbers, ids and text, and Subsections given as pairs <<number, id>>
IdDocument(part_number, number, section_id, section_text, subsections) ==
    add_metadata(RawDocument(<<
        [part_number |-> part_number, part_title |-> <<"R","E","N","T">>,
         sections |-> <<
             Opt("section_id", section_id) @@ Opt("section_text", section_text)
             @@ [section_number |-> number, section_title |-> <<"R","e","n","t">>,
                 subsections |->
                     [k \in DOMAIN subsections |->
                         Opt("subsection_id", subsections[k][2])
                         @@ [subsection_number |-> subsections[k][1],
                             subsection_text |-> Tidy]]] >>] >>))

\* the documents the Enhancer is started on
CleanDocuments ==
    {IdDocument(part_number, number, section_id, section_text, subsections) :
        part_number \in {<<"I">>, <<"P","R","E","L","I","M","I","N","A","R","Y">>},
        number \in {Five, FiveOne},
        section_id \in {Absent, StaleId},
        section_text \in {Absent, BilingualText},
        subsections \in Streams({<<"(","1",")">>, <<"(","2",")">>} \X {Absent, StaleId},
                                MaxSubsections)}

\* the texts around the minimum chunk length, a key left out among them
LengthCases ==
    {Absent, <<>>, Filler(MIN_CHUNK_LENGTH - 1), Filler(MIN_CHUNK_LENGTH),
     Filler(MIN_CHUNK_LENGTH + 1)}

\* an enhanced document of one Part holding a Section without Subsections
\* and a Section with two Subsections, with these texts
LengthDocument(alone, parent, first, second) ==
    enhance_document(add_metadata(RawDocument(<<
        [part_number |-> <<"I">>, part_title |-> <<"R","E","N","T">>,
         sections |-> <<
             Opt("section_text", alone)
             @@ [section_number |-> Five, section_title |-> <<"R","e","n","t">>],
             Opt("section_text", parent)
             @@ [section_number |-> Seven, section_title |-> <<"R","e","n","t">>,
                 subsections |-> <<
                     Opt("subsection_text", first) @@ [subsection_number |-> <<"(","1",")">>],
                     Opt("subsection_text", second) @@ [subsection_number |-> <<"(","2",")">>]
                 >>] >>] >>)))

LengthDocuments ==
    {LengthDocument(alone, parent, first, second) :
        alone \in LengthCases, parent \in {Absent, Filler(MIN_CHUNK_LENGTH + 1)},
        first \in LengthCases, second \in LengthCases}

\* the (part_number, section_number, subsection_number or None) triples of
\* the values the earlier stages produce
Triples ==
    {<<"I">>, <<"2">>, <<"P","R","E","L","I","M","I","N","A","R","Y">>}
    \X {<<"2">>, Five, FiveOne}
    \X {None, <<"(","1",")">>, <<"(","2",")">>}

\* a Part of one Section, with one Subsection when the triple has one, whose
\* chunk gets its id from the triple
TriplePart(triple) ==
    [part_number |-> triple[1], part_title |-> <<"R","E","N","T">>,
     sections |-> <<
         [section_number |-> triple[2], section_title |-> <<"R","e","n","t">>,
          section_text |-> Filler(MIN_CHUNK_LENGTH),
          subsections |->
              IF triple[3] = None THEN <<>>
              ELSE << [subsection_number |-> triple[3],
                       subsection_text |-> Filler(MIN_CHUNK_LENGTH)] >>] >>]

\* the enhanced documents of two Parts made from two triples
TripleDocuments ==
    {enhance_document(add_metadata(RawDocument(<<TriplePart(t1), TriplePart(t2)>>))) :
        t1 \in Triples, t2 \in Triples}

\* the amendment records of two citations, as extract_amendment_info makes
\* them
SectionRecord == extract_amendment_info(Citation).info
SubsectionRecord ==
    extract_amendment_info(<<"2","0","1","7",","," ","c","."," ","1","3">>).info

\* an enhanced document of one Part holding a Section without Subsections
\* and a Section with two Subsections, with these amendment records
AmendmentDocument(alone, parent, first, second) ==
    enhance_document(add_metadata(RawDocument(<<
        [part_number |-> <<"I">>, part_title |-> <<"R","E","N","T">>,
         sections |-> <<
             Opt("amendment_info", alone)
             @@ [section_number |-> Five, section_title |-> <<"R","e","n","t">>,
                 section_text |-> Filler(MIN_CHUNK_LENGTH)],
             Opt("amendment_info", parent)
             @@ [section_number |-> Seven, section_title |-> <<"R","e","n","t">>,
                 subsections |-> <<
                     Opt("amendment_info", first)
                     @@ [subsection_number |-> <<"(","1",")">>,
                         subsection_text |-> Filler(MIN_CHUNK_LENGTH)],
                     Opt("amendment_info", second)
                     @@ [subsection_number |-> <<"(","2",")">>,
                         subsection_text |-> Filler(MIN_CHUNK_LENGTH + 1)]
                 >>] >>] >>)))

AmendmentDocuments ==
    {AmendmentDocument(alone, parent, first, second) :
        alone \in {Absent, SectionRecord}, parent \in {Absent, SectionRecord},
        first \in {Absent, SubsectionRecord}, second \in {Absent, SubsectionRecord}}

\* "to protect tenants": the text of the Paragraph "(a) to protect tenants"
ParagraphText == SubSeq(ParagraphA, 5, Len(ParagraphA))

\* an enhanced document of a Part holding a Section without Subsections and
\* of a Part holding a Section with two Subsections, the first with a
\* Paragraph, every text another one
SourceDocument(alone, parent, first, second) ==
    enhance_document(add_metadata(RawDocument(<<
        [part_number |-> <<"I">>, part_title |-> <<"R","E","N","T">>,
         sections |-> <<
             [section_number |-> Five, section_title |-> <<"R","e","n","t">>,
              section_text |-> alone] >>],
        [part_number |-> <<"I","I">>, part_title |-> <<"R","E","N","T">>,
         sections |-> <<
             Opt("section_text", parent)
             @@ [section_number |-> Seven, section_title |-> <<"R","e","n","t">>,
                 subsections |-> <<
                     [subsection_number |-> <<"(","1",")">>,
                      subsection_text |-> first,
                      paragraphs |-> << [label |-> <<"(","a",")">>,
                                         text |-> ParagraphText] >>],
                     [subsection_number |-> <<"(","2",")">>,
                      subsection_text |-> second]
                 >>] >>] >>)))

SourceDocuments ==
    {SourceDocument(alone, parent, first, second) :
        alone \in {PlainText, Prose}, parent \in {Absent, MergedPart},
        first \in {ParagraphB, Prose}, second \in {SubsectionMarker, DefinitionFragment}}

\* the documents the Flattener is started on
FinalDocuments ==
    LengthDocuments \cup TripleDocuments \cup AmendmentDocuments \cup SourceDocuments

\* ------------------------------------------------------------------------
\* The state machine: the stages run in the order of data/parse_document.py
\* ------------------------------------------------------------------------

\* the snapshots on disk when the stage at position stage starts: each
\* stage loads what the stage before it saved
SavedBefore(stage) ==
    CASE stage = "parsing"        -> {}
      [] stage = "returned"       -> {"raw"}
      [] stage = "post_processed" -> {"raw", "clean"}
      [] stage = "enhanced"       -> {"raw", "clean", "final"}

\* the state in which the stage at position stage starts on one of the
\* streams or documents
InitAt(streams, stage, documents) ==
    /\ elements \in streams
    /\ idx = 0
    /\ pc = stage
    /\ document = InitialBuilder.document
    /\ heap = InitialBuilder.heap
    /\ current_part = InitialBuilder.current_part
    /\ current_section = InitialBuilder.current_section
    /\ current_subsection = InitialBuilder.current_subsection
    /\ current_schedule = InitialBuilder.current_schedule
    /\ pending_part_text = InitialBuilder.pending_part_text
    /\ pending_part_number = InitialBuilder.pending_part_number
    /\ doc \in documents
    /\ issues = <<>>
    /\ chunks = <<>>
    /\ argument = None
    /\ result = None
    /\ previous = None
    /\ written = SavedBefore(stage)
    /\ exit_code = None

\* the state after construction: the stream is the input, nothing is parsed
Init == InitAt(Streams(Library, MaxElements) \cup Scenarios, "parsing", {None})

InitPost == InitAt({<<>>}, "returned", RawDocuments)

InitEnhance == InitAt({<<>>}, "post_processed", CleanDocuments)

InitFlatten == InitAt({<<>>}, "enhanced", FinalDocuments)

\* one iteration of the loop of parse_legal_document
ProcessElement ==
    /\ pc = "parsing"
    /\ idx < Len(elements)
    /\ \E st \in {process_element(Builder, elements[idx + 1])} :
           /\ document' = st.document
           /\ heap' = st.heap
           /\ current_part' = st.current_part
           /\ current_section' = st.current_section
           /\ current_subsection' = st.current_subsection
           /\ current_schedule' = st.current_schedule
           /\ pending_part_text' = st.pending_part_text
           /\ pending_part_number' = st.pending_part_number
    /\ idx' = idx + 1
    /\ UNCHANGED <<elements, pc, doc, issues, chunks>>
    /\ UNCHANGED <<call_vars, previous, driver_vars>>

\* the end of parse_legal_document: the texts are stripped and the document
\* is returned, and written out as the raw snapshot
Return ==
    /\ pc = "parsing"
    /\ idx = Len(elements)
    /\ heap' = strip_texts(Builder).heap
    /\ doc' = Serialize(document, heap')
    /\ pc' = "returned"
    /\ UNCHANGED <<elements, idx, document, current_part, current_section,
                   current_subsection, current_schedule, pending_part_text,
                   pending_part_number, issues, chunks>>
    /\ written' = written \cup {"raw"}
    /\ UNCHANGED <<call_vars, previous, exit_code>>

\* the steps of post_process_document
AddMetadata ==
    /\ pc = "returned"
    /\ pc' = "metadata_added"
    /\ doc' = add_metadata(doc)
    /\ UNCHANGED <<builder_vars_but_pc, issues, chunks>>
    /\ UNCHANGED <<call_vars, previous, driver_vars>>

FixDuplicateSectionNumbers ==
    /\ pc = "metadata_added"
    /\ pc' = "duplicates_fixed"
    /\ doc' = [doc EXCEPT !.parts = fix_duplicate_section_numbers(@)]
    /\ UNCHANGED <<builder_vars_but_pc, issues, chunks>>
    /\ UNCHANGED <<call_vars, previous, driver_vars>>

SplitMergedSectionTitles ==
    /\ pc = "duplicates_fixed"
    /\ pc' = "titles_split"
    /\ doc' = [doc EXCEPT !.parts = split_merged_section_titles(@)]
    /\ UNCHANGED <<builder_vars_but_pc, issues, chunks>>
    /\ UNCHANGED <<call_vars, previous, driver_vars>>

CleanSectionTextWhitespace ==
    /\ pc = "titles_split"
    /\ pc' = "whitespace_cleaned"
    /\ doc' = [doc EXCEPT !.parts = clean_section_text_whitespace(@)]
    /\ UNCHANGED <<builder_vars_but_pc, issues, chunks>>
    /\ UNCHANGED <<call_vars, previous, driver_vars>>

RemoveEmptyFields ==
    /\ pc = "whitespace_cleaned"
    /\ pc' = "empty_removed"
    /\ doc' = [doc EXCEPT !.parts = remove_empty_fields(@)]
    /\ UNCHANGED <<builder_vars_but_pc, issues, chunks>>
    /\ UNCHANGED <<call_vars, previous, driver_vars>>

\* validation and the save of the clean snapshot
ValidateStructure ==
    /\ pc = "empty_removed"
    /\ pc' = "post_processed"
    /\ issues' = validate_structure(doc)
    /\ UNCHANGED <<builder_vars_but_pc, doc, chunks>>
    /\ written' = written \cup {"clean"}
    /\ UNCHANGED <<call_vars, previous, exit_code>>

\* the steps of enhance_document
AddHierarchicalSectionIds ==
    /\ pc = "post_processed"
    /\ pc' = "ids_added"
    /\ doc' = add_hierarchical_section_ids(doc)
    /\ UNCHANGED <<builder_vars_but_pc, issues, chunks>>
    /\ UNCHANGED <<call_vars, previous, driver_vars>>

ExtractBilingualTerms ==
    /\ pc = "ids_added"
    /\ pc' = "terms_extracted"
    /\ doc' = extract_bilingual_terms(doc)
    /\ UNCHANGED <<builder_vars_but_pc, issues, chunks>>
    /\ UNCHANGED <<call_vars, previous, driver_vars>>

EstimateTokenCounts ==
    /\ pc = "terms_extracted"
    /\ pc' = "tokens_estimated"
    /\ doc' = estimate_token_counts(doc)
    /\ UNCHANGED <<builder_vars_but_pc, issues, chunks>>
    /\ UNCHANGED <<call_vars, previous, driver_vars>>

AddPartSummaries ==
    /\ pc = "tokens_estimated"
    /\ pc' = "parts_summarized"
    /\ doc' = add_part_summaries(doc)
    /\ UNCHANGED <<builder_vars_but_pc, issues, chunks>>
    /\ UNCHANGED <<call_vars, previous, driver_vars>>

AddRetrievalMetadata ==
    /\ pc = "parts_summarized"
    /\ pc' = "enhanced"
    /\ doc' = add_retrieval_metadata(doc)
    /\ UNCHANGED <<builder_vars_but_pc, issues, chunks>>
    /\ written' = written \cup {"final"}
    /\ UNCHANGED <<call_vars, previous, exit_code>>

\* flatten_to_rag_chunks on the final snapshot
FlattenToRagChunks ==
    /\ pc = "enhanced"
    /\ pc' = "flattened"
    /\ chunks' = flatten_to_rag_chunks(doc)
    /\ UNCHANGED <<builder_vars_but_pc, doc, issues>>
    /\ UNCHANGED <<call_vars, previous, driver_vars>>

NextBuilder == ProcessElement \/ Return

NextPost ==
    \/ AddMetadata
    \/ FixDuplicateSectionNumbers
    \/ SplitMergedSectionTitles
    \/ CleanSectionTextWhitespace
    \/ RemoveEmptyFields
    \/ ValidateStructure

NextEnhance ==
    \/ AddHierarchicalSectionIds
    \/ ExtractBilingualTerms
    \/ EstimateTokenCounts
    \/ AddPartSummaries
    \/ AddRetrievalMetadata

NextFlatten == FlattenToRagChunks

Next == NextBuilder \/ NextPost \/ NextEnhance \/ NextFlatten

\* the Hierarchy Builder on every stream
SpecBuilder == Init /\ [][NextBuilder]_vars

\* the Post-Processor on every raw document
SpecPost == InitPost /\ [][NextPost]_vars

\* the Enhancer on every post-processed document
SpecEnhance == InitEnhance /\ [][NextEnhance]_vars

\* the Flattener on every enhanced document
SpecFlatten == InitFlatten /\ [][NextFlatten]_vars

\* the whole pipeline on every stream
Spec == Init /\ [][Next]_vars

\* a second run of the pipeline on the same stream in the same process:
\* what the first run gave is kept aside, and every stage starts from its
\* own new locals
Rerun ==
    /\ pc = "flattened"
    /\ previous = None
    /\ previous' = [doc |-> doc, chunks |-> chunks]
    /\ pc' = "parsing"
    /\ idx' = 0
    /\ \E st \in {Fresh(Builder)} :
           /\ document' = st.document
           /\ heap' = st.heap
           /\ current_part' = st.current_part
           /\ current_section' = st.current_section
           /\ current_subsection' = st.current_subsection
           /\ current_schedule' = st.current_schedule
           /\ pending_part_text' = st.pending_part_text
           /\ pending_part_number' = st.pending_part_number
    /\ doc' = None
    /\ issues' = <<>>
    /\ chunks' = <<>>
    /\ written' = {}
    /\ UNCHANGED <<elements, call_vars, exit_code>>

NextRuns == Next \/ Rerun

\* the pipeline run twice
SpecRuns == Init /\ [][NextRuns]_vars

\* ------------------------------------------------------------------------
\* The pipeline driver (data/parse_document.py): main runs the three stages,
\* each in a try block that returns 1 on any exception
\* ------------------------------------------------------------------------

\* where the run stands while post_process_document works, before its save
PostProcessing ==
    {"returned", "metadata_added", "duplicates_fixed", "titles_split",
     "whitespace_cleaned", "empty_removed"}

\* where the run stands while enhance_document works, before its save
Enhancing ==
    {"post_processed", "ids_added", "terms_extracted", "tokens_estimated",
     "parts_summarized"}

\* where the run stands after an except block of main returned
Aborted == {"parse_failed", "post_process_failed", "enhance_failed"}

\* an exception reaches the except block of a stage: main returns 1
Fails(failed) ==
    /\ pc' = failed
    /\ exit_code' = <<1>>
    /\ UNCHANGED <<builder_vars_but_pc, doc, issues, chunks, call_vars, previous,
                   written>>

\* the except block of a stage entered after the stage has saved its
\* snapshot
FailsAfterSave(failed, snapshot) ==
    /\ pc' = failed
    /\ exit_code' = <<1>>
    /\ written' = written \cup {snapshot}
    /\ UNCHANGED <<builder_vars_but_pc, doc, issues, chunks, call_vars, previous>>

PostProcessFails_after_save ==
    /\ pc \in PostProcessing
    /\ FailsAfterSave("post_process_failed", "clean")

\* stage 1 raises: partition_docx on an unreadable input, or open on the
\* raw snapshot
ParseFails ==
    /\ pc = "parsing"
    /\ idx \in {0, Len(elements)}
    /\ Fails("parse_failed")

\* stage 2 raises: json.load of the raw snapshot, a pass, or open on the
\* clean snapshot
PostProcessFails ==
    /\ pc \in PostProcessing
    /\ Fails("post_process_failed")

\* stage 3 raises: json.load of the clean snapshot, a pass, or open on the
\* final snapshot
EnhanceFails ==
    /\ pc \in Enhancing
    /\ Fails("enhance_failed")

\* main reaches its last line
Complete ==
    /\ pc = "enhanced"
    /\ pc' = "complete"
    /\ exit_code' = <<0>>
    /\ UNCHANGED <<builder_vars_but_pc, doc, issues, chunks, call_vars, previous,
                   written>>

NextDriver ==
    \/ NextBuilder
    \/ ParseFails
    \/ NextPost
    \/ PostProcessFails
    \/ NextEnhance
    \/ EnhanceFails
    \/ Complete

\* main of parse_document.py on every stream, with every failure
SpecDriver == Init /\ [][NextDriver]_vars

\* ------------------------------------------------------------------------
\* Calls of one function alone
\* ------------------------------------------------------------------------

\* the components of citations 'YYYY, c. N, s. M - DD/MM/YYYY'
CitationParts ==
    {[year |-> <<"2","0","1","3">>, chapter |-> <<"3">>, section |-> <<"2","0">>,
      date |-> <<"0","1","/","0","6","/","2","0","1","4">>],
     [year |-> <<"2","0","2","4">>, chapter |-> <<"2","8">>, section |-> <<"4">>,
      date |-> <<"3","1","/","1","2","/","2","0","2","4">>],
     [year |-> <<"1","9","9","7">>, chapter |-> <<"2","4">>, section |-> <<"2","1","3">>,
      date |-> <<"1","5","/","0","2","/","1","9","9","8">>]}

\* the citation text of the components
CitationText(c) ==
    c.year \o <<",", " ", "c", ".", " ">> \o c.chapter
    \o <<",", " ", "s", ".", " ">> \o c.section \o <<" ", "-", " ">> \o c.date

\* "Rent increase guideline."
Guideline ==
    <<"R","e","n","t"," ","i","n","c","r","e","a","s","e"," ",
      "g","u","i","d","e","l","i","n","e",".">>

\* body texts: with and without a final period, with an inner dash, naming a
\* Schedule, empty
Bodies ==
    {Guideline, <<"R","e","n","t">>, <<"R","e","n","t"," ","-"," ","d","u","e">>,
     <<"s","e","e"," ","S","c","h","e","d","."," ","2">>, <<"(","d","/","m","/","y",")">>,
     <<>>}

\* what stands between a body and its citation
Separators == {<<" ">>, <<",", " ">>, <<" ", "-", " ">>, <<" ", EnDash, " ">>}

\* "Section Amendments with date in force (d/m/y)"
AmendmentsHeader == SectionAmendmentsHeader \o <<" ","(","d","/","m","/","y",")">>

\* texts without a citation
Uncited ==
    {Guideline, <<>>, <<" ","R","e","n","t",","," ">>, AmendmentsHeader,
     Upper(SectionAmendmentsHeader)}

\* the calls of extract_amendment_info: a body, a separator and a citation
\* joined to one text, or a text without a citation
ExtractionCalls ==
    {[function |-> "extract_amendment_info", text |-> body \o separator \o CitationText(c),
      body |-> body, cited |-> <<c>>] :
        body \in Bodies, separator \in Separators, c \in CitationParts}
    \cup {[function |-> "extract_amendment_info", text |-> text, body |-> text,
           cited |-> <<>>] : text \in Uncited}

\* the Parts of the documents validate_structure is called on: without
\* the key sections, with no Section, with a Section with and without a
\* number
ValidationParts ==
    {[part_number |-> <<"I">>],
     [part_number |-> <<"I">>, sections |-> <<>>],
     [part_number |-> <<"I">>, sections |-> << [section_number |-> <<"5">>] >>],
     [part_number |-> <<"I">>, sections |-> << [section_title |-> <<"R","e","n","t">>] >>],
     [part_number |-> <<"I">>,
      sections |-> << [section_number |-> <<"5">>], [section_title |-> <<"R","e","n","t">>] >>]}

\* the longest list of Parts of such a document
MaxParts == 2

\* documents with a list of Parts, with and without the other required
\* fields
ValidationDocuments ==
    {Opt("act_name", act_name) @@ Opt("jurisdiction", jurisdiction) @@ [parts |-> parts] :
        act_name \in {Absent, <<>>, <<"a">>},
        jurisdiction \in {Absent, <<"O","n","t","a","r","i","o">>},
        parts \in Streams(ValidationParts, MaxParts)}

ValidationCalls ==
    {[function |-> "validate_structure", document |-> d] : d \in ValidationDocuments}

\* section texts around the chunking threshold (6003 and 6004 characters),
\* a short one and a key left out
TokenTexts ==
    {Absent, Filler(5), Filler(4 * ChunkingThreshold + 3),
     Filler(4 * ChunkingThreshold + 4)}

\* a document of one Part holding a Section without Subsections and a
\* Section with one Subsection, with these texts
TokenParts(alone, parent, first) ==
    << [part_number |-> <<"I">>, part_title |-> <<"R","E","N","T">>,
        sections |-> <<
            Opt("section_text", alone)
            @@ [section_number |-> Five, section_title |-> <<"R","e","n","t">>,
                section_id |-> <<"I",".","5">>],
            Opt("section_text", parent)
            @@ [section_number |-> Seven, section_title |-> <<"R","e","n","t">>,
                section_id |-> <<"I",".","7">>,
                subsections |-> <<
                    Opt("subsection_text", first) @@ [subsection_number |-> <<"(","1",")">>]
                >>] >>] >>

\* the documents estimate_token_counts is called on: as the Post-Processor
\* leaves them, and without a metadata block
TokenDocuments ==
    {IF processed THEN add_metadata(RawDocument(TokenParts(alone, parent, first)))
                  ELSE RawDocument(TokenParts(alone, parent, first)) :
        alone \in TokenTexts, parent \in TokenTexts,
        first \in {Absent, Filler(7), Filler(8)},
        processed \in BOOLEAN}

TokenCalls ==
    {[function |-> "estimate_token_counts", document |-> d] : d \in TokenDocuments}

\* the Sections of the summary documents: a title that may be empty, with
\* or without one Subsection
SummarySectionChoices ==
    {[section_number |-> Five, section_title |-> title] @@ more :
        title \in {<<>>, <<"R","e","n","t">>, <<"T","e","r","m">>},
        more \in {<<>>, [subsections |-> << [subsection_number |-> <<"(","1",")">>] >>]}}

\* the longest section list of a summary document
MaxSummarySections == 4

\* documents of one Part with every list of these Sections, as
\* add_part_summaries is called on them
SummaryDocuments ==
    {RawDocument(<< [part_number |-> <<"I">>, part_title |-> <<"R","E","N","T">>,
                     sections |-> sections] >>) :
        sections \in Streams(SummarySectionChoices, MaxSummarySections)}

SummaryCalls ==
    {[function |-> "add_part_summaries", document |-> d] : d \in SummaryDocuments}

\* the state in which one function has been called and has not returned
InitCalls ==
    /\ elements = <<>>
    /\ idx = 0
    /\ pc = "called"
    /\ document = InitialBuilder.document
    /\ heap = InitialBuilder.heap
    /\ current_part = InitialBuilder.current_part
    /\ current_section = InitialBuilder.current_section
    /\ current_subsection = InitialBuilder.current_subsection
    /\ current_schedule = InitialBuilder.current_schedule
    /\ pending_part_text = InitialBuilder.pending_part_text
    /\ pending_part_number = InitialBuilder.pending_part_number
    /\ doc = None
    /\ issues = <<>>
    /\ chunks = <<>>
    /\ argument \in ExtractionCalls \cup ValidationCalls \cup TokenCalls
                   \cup SummaryCalls
    /\ result = None
    /\ previous = None
    /\ written = {}
    /\ exit_code = None

\* extract_amendment_info(text) returns
ExtractAmendmentInfo ==
    /\ pc = "called"
    /\ argument.function = "extract_amendment_info"
    /\ result' = extract_amendment_info(argument.text)
    /\ pc' = "answered"
    /\ UNCHANGED <<builder_vars_but_pc, doc, issues, chunks, argument, previous,
                   driver_vars>>

\* validate_structure(document) returns
ValidateStructureCall ==
    /\ pc = "called"
    /\ argument.function = "validate_structure"
    /\ result' = validate_structure(argument.document)
    /\ pc' = "answered"
    /\ UNCHANGED <<builder_vars_but_pc, doc, issues, chunks, argument, previous,
                   driver_vars>>

\* estimate_token_counts(document) returns: the document as the call left it
EstimateTokenCountsCall ==
    /\ pc = "called"
    /\ argument.function = "estimate_token_counts"
    /\ result' = estimate_token_counts(argument.document)
    /\ pc' = "answered"
    /\ UNCHANGED <<builder_vars_but_pc, doc, issues, chunks, argument, previous,
                   driver_vars>>

\* add_part_summaries(document) returns: the document as the call left it
AddPartSummariesCall ==
    /\ pc = "called"
    /\ argument.function = "add_part_summaries"
    /\ result' = add_part_summaries(argument.document)
    /\ pc' = "answered"
    /\ UNCHANGED <<builder_vars_but_pc, doc, issues, chunks, argument, previous,
                   driver_vars>>

NextCalls ==
    \/ ExtractAmendmentInfo
    \/ ValidateStructureCall
    \/ EstimateTokenCountsCall
    \/ AddPartSummariesCall

SpecCalls == InitCalls /\ [][NextCalls]_vars

\* ------------------------------------------------------------------------
\* Properties of the Hierarchy Builder
\* ------------------------------------------------------------------------

\* the kinds of the dicts on the heap
IsPartNode(i) == "part_number" \in DOMAIN heap[i]
IsSectionNode(i) == "section_number" \in DOMAIN heap[i]
IsSubsectionNode(i) == "subsection_number" \in DOMAIN heap[i]
IsParagraphNode(i) == "label" \in DOMAIN heap[i]

\* the places <<parent, index>> at which the node i is listed: a Section in
\* the sections of the Parts of document["parts"] (a Part counted once for
\* each time the list holds it), a Subsection in the subsections of the
\* Sections, a Paragraph in the paragraphs of the Subsections
SectionPlaces(i) ==
    UNION {{<<a, k>> : k \in {k \in DOMAIN heap[document.parts[a]].sections :
                                 heap[document.parts[a]].sections[k] = i}} :
           a \in DOMAIN document.parts}

SubsectionPlaces(i) ==
    UNION {{<<p, k>> : k \in {k \in DOMAIN heap[p].subsections : heap[p].subsections[k] = i}} :
           p \in {p \in DOMAIN heap : IsSectionNode(p)}}

ParagraphPlaces(i) ==
    UNION {{<<p, k>> : k \in {k \in DOMAIN heap[p].paragraphs : heap[p].paragraphs[k] = i}} :
           p \in {p \in DOMAIN heap : IsSubsectionNode(p)}}

\* C1: in the returned Document every Section is listed exactly once, in the
\* sections of exactly one Part of the Document, every Subsection exactly
\* once in the subsections of exactly one Section, and every Paragraph
\* exactly once in the paragraphs of exactly one Subsection: no node is
\* shared and none that was created is left unattached.
TreeWellFormed ==
    pc = "returned" =>
        \A i \in DOMAIN heap :
            /\ IsSectionNode(i) => Cardinality(SectionPlaces(i)) = 1
            /\ IsSubsectionNode(i) => Cardinality(SubsectionPlaces(i)) = 1
            /\ IsParagraphNode(i) => Cardinality(ParagraphPlaces(i)) = 1

\* a Document is returned that holds a PRELIMINARY Part, a Section, a
\* Subsection and a Paragraph
TreeWellFormedWitness ==
    /\ pc = "returned"
    /\ \E i \in DOMAIN heap :
          IsPartNode(i) /\ heap[i].part_number = <<"P","R","E","L","I","M","I","N","A","R","Y">>
    /\ \E i \in DOMAIN heap : IsSubsectionNode(i)
    /\ \E i \in DOMAIN heap : IsParagraphNode(i)

\* the words of a text: its maximal runs of letters and digits
Words(text) ==
    {SubSeq(text, i, RunEnd(text, i, "alnum") - 1) :
        i \in {i \in DOMAIN text : IsAlnum(text[i]) /\ (i = 1 \/ ~IsAlnum(text[i - 1]))}}

\* the strings a dict of the tree holds itself, the citation of its
\* amendment record among them
NodeTexts(d) ==
    {d[k] : k \in DOMAIN d \ {"sections", "subsections", "paragraphs", "amendment_info"}}
    \cup (IF "amendment_info" \in DOMAIN d THEN {d.amendment_info.citation} ELSE {})

\* every string of the Document: metadata, the fields of Parts, Sections,
\* Subsections, Paragraphs and Schedules, Definitions and Amendment entries
DocumentTexts ==
    {document.act_name, document.citation, document.consolidation_date,
     document.last_amendment}
    \cup UNION {NodeTexts(heap[i]) : i \in DOMAIN heap}
    \cup UNION {{x.term, x.definition} : x \in Range(document.definitions)}
    \cup UNION {{x.year, x.citation, x.full_text} : x \in Range(document.amendments)}

\* the least a retained text leaves behind: each of its words occurs, in
\* either case, in some string of the Document
Retained(text) == \A w \in Words(text) : \E t \in DocumentTexts : ContainsCI(t, w)

\* the fragments the loop passes over by design: empty ones and long tables
Skipped(element) ==
    \/ Strip(element.text) = <<>>
    \/ element.category = TableCategory /\ Len(Strip(element.text)) > TableNoiseLength

\* C2: the builder loses no text: in the returned Document the text of every
\* fragment that is not empty and not skipped as table-of-contents noise is
\* retained in some field.
NoTextLost ==
    pc = "returned" =>
        \A k \in DOMAIN elements : ~Skipped(elements[k]) => Retained(elements[k].text)

\* the parts of the Document C3 expects for the plain fragment plain
ScenarioParts(plain) ==
    << [part_number |-> <<"I">>,
        part_title |-> <<"I","N","T","R","O","D","U","C","T","I","O","N">>,
        sections |-> <<
            [section_number |-> <<"1">>,
             section_title |-> <<"P","u","r","p","o","s","e","s"," ","o","f"," ","A","c","t">>,
             section_text |-> plain,
             subsections |-> <<
                 [subsection_number |-> <<"(","1",")">>,
                  subsection_text |-> <<"T","h","e"," ","p","u","r","p","o","s","e","s"," ",
                                        "a","r","e">>,
                  paragraphs |-> <<
                      [label |-> <<"(","a",")">>,
                       text |-> <<"t","o"," ","p","r","o","t","e","c","t"," ",
                                  "t","e","n","a","n","t","s">>],
                      [label |-> <<"(","b",")">>,
                       text |-> <<"t","o"," ","b","a","l","a","n","c","e"," ",
                                  "r","i","g","h","t","s">>] >>] >>] >>] >>

\* C3: the stream Part header, Section header, plain fragment, Subsection
\* marker, two Paragraph markers yields exactly one Part I INTRODUCTION with
\* one Section 1 "Purposes of Act" whose text is the plain fragment, with one
\* Subsection (1) "The purposes are" with the Paragraphs (a) and (b) in that
\* order, and no PRELIMINARY Part, Schedule or Amendment entry.
ScenarioTree ==
    \A plain \in PlainFragments :
        pc = "returned" /\ elements = PartScenario(plain) =>
            /\ doc.parts = ScenarioParts(plain)
            /\ doc.schedules = <<>>
            /\ doc.amendments = <<>>

\* the scenario of C3 has been parsed and a Part with a Section is returned
ScenarioTreeWitness ==
    /\ pc = "returned"
    /\ elements = PartScenario(Prose)
    /\ Len(doc.parts) = 1
    /\ Len(doc.parts[1].sections) = 1

\* C4: a Schedule header, two prose fragments and a single-line header of
\* Part II yield exactly one Schedule whose content is the two fragments in
\* order, each joined on with one space; after the Part header no Schedule
\* is open, exactly one Part, number II, has been appended and is current,
\* and the header's text is not in the content.
ScheduleClosedByPart ==
    \A p1 \in ProseFragments, p2 \in ProseFragments :
        pc = "returned" /\ elements = ScheduleScenario(p1, p2) =>
            /\ Len(doc.schedules) = 1
            /\ doc.schedules[1].schedule_id = <<"A">>
            /\ doc.schedules[1].content = Joined(Joined(<<>>, p1), p2)
            /\ current_schedule = 0
            /\ Len(document.parts) = 1
            /\ current_part = document.parts[1]
            /\ doc.parts = << [part_number |-> <<"I","I">>,
                               part_title |-> <<"R","I","G","H","T","S">>,
                               sections |-> <<>>] >>

\* the scenario of C4 has been parsed, with a fragment that would open a
\* Section outside a Schedule among the prose
ScheduleClosedByPartWitness ==
    /\ pc = "returned"
    /\ elements = ScheduleScenario(SectionFive, Prose)
    /\ Len(doc.schedules) = 1
    /\ current_part # 0

\* ------------------------------------------------------------------------
\* Properties of the Post-Processor
\* ------------------------------------------------------------------------

\* the section numbers of a Part, in order
Numbers(part) == [j \in DOMAIN part.sections |-> part.sections[j].section_number]

\* the number of occurrences of the j-th number among the first j
Occurrence(numbers, j) == Cardinality({k \in 1..j : numbers[k] = numbers[j]})

\* the number the claim gives the j-th Section: N for the first occurrence
\* of N, N.1, N.2, ... for the next ones
Disambiguated(numbers, j) ==
    IF Occurrence(numbers, j) = 1 THEN numbers[j]
    ELSE numbers[j] \o <<".">> \o IntToStr(Occurrence(numbers, j) - 1)

\* after differs from before in the section numbers at most
SameButNumbers(before, after) ==
    /\ DOMAIN after = DOMAIN before
    /\ \A i \in DOMAIN before :
          /\ DOMAIN after[i].sections = DOMAIN before[i].sections
          /\ \A j \in DOMAIN before[i].sections :
                [after[i] EXCEPT !.sections[j].section_number =
                    before[i].sections[j].section_number].sections[j]
                = before[i].sections[j]

\* C5 as stated: the pass keeps the number and order of the Sections of
\* every Part, leaves the first occurrence of each number N and rewrites the
\* 2nd, 3rd, ... occurrence of N to N.1, N.2, ..., counting per Part.
EveryDuplicateRenumbered ==
    [][FixDuplicateSectionNumbers =>
          /\ SameButNumbers(doc.parts, doc'.parts)
          /\ \A i \in DOMAIN doc.parts : \A j \in DOMAIN doc.parts[i].sections :
                Numbers(doc'.parts[i])[j] = Disambiguated(Numbers(doc.parts[i]), j)]_vars

\* C5 amended: the same for every number N without a decimal point; a
\* Section whose number holds a "." is left as it is.  For the numbers
\* 5, 7, 5, 5 the result is 5, 7, 5.1, 5.2.
UndottedDuplicateRenumbered ==
    [][FixDuplicateSectionNumbers =>
          /\ SameButNumbers(doc.parts, doc'.parts)
          /\ \A i \in DOMAIN doc.parts : \A j \in DOMAIN doc.parts[i].sections :
                Numbers(doc'.parts[i])[j] =
                    IF Contains(Numbers(doc.parts[i])[j], <<".">>)
                    THEN Numbers(doc.parts[i])[j]
                    ELSE Disambiguated(Numbers(doc.parts[i]), j)
          /\ \A i \in DOMAIN doc.parts :
                Numbers(doc.parts[i]) = <<Five, Seven, Five, Five>>
                => Numbers(doc'.parts[i]) =
                      <<Five, Seven, FiveOne, <<"5",".","2">> >>]_vars

\* the pass has run on a Part numbered 5, 7, 5, 5 and on one numbered 5, 5
UndottedDuplicateRenumberedWitness ==
    /\ pc = "duplicates_fixed"
    /\ Len(doc.parts) = 2
    /\ Numbers(doc.parts[1]) = <<Five, Seven, FiveOne, <<"5",".","2">> >>
    /\ Numbers(doc.parts[2]) = <<Five, FiveOne>>

\* the positions at which the Post-Processor has run
PostProcessed ==
    pc \in {"post_processed", "ids_added", "terms_extracted", "tokens_estimated",
            "parts_summarized", "enhanced", "flattened"}

\* C6: for every Document the builder produces, after the Post-Processor
\* has run the section numbers within each Part are pairwise distinct.
SectionNumbersUnique ==
    PostProcessed =>
        \A i \in DOMAIN doc.parts :
            \A j, k \in DOMAIN doc.parts[i].sections :
                j # k => doc.parts[i].sections[j].section_number
                         # doc.parts[i].sections[k].section_number

\* the Post-Processor has run on a built Part in which a number came three
\* times
SectionNumbersUniqueWitness ==
    /\ pc = "post_processed"
    /\ elements # <<>>
    /\ \E i \in DOMAIN doc.parts :
          Numbers(doc.parts[i]) = <<Five, FiveOne, <<"5",".","2">> >>

\* C7: the white space pass is idempotent: applied to its own result it
\* changes no description, title or text.
WhitespaceIdempotent ==
    pc = "whitespace_cleaned" => clean_section_text_whitespace(doc.parts) = doc.parts

\* the pass has run on a document whose texts held runs of white space
WhitespaceIdempotentWitness ==
    /\ pc = "whitespace_cleaned"
    /\ "description" \in DOMAIN doc.parts[1] /\ doc.parts[1].description = Tidy
    /\ doc.parts[1].sections[1].section_title = Tidy
    /\ Get(doc.parts[1].sections[1], "section_text", None) = Tidy
    /\ Get(doc.parts[1].sections[1].subsections[1], "subsection_text", None) = Tidy
    /\ Get(doc.parts[1].sections[1].subsections[1].paragraphs[1], "text", None) = Tidy

\* ------------------------------------------------------------------------
\* Properties of the Enhancer
\* ------------------------------------------------------------------------

\* the ids of a document: for each Part and Section the section_id and the
\* list of subsection_ids
Ids(d) ==
    [i \in DOMAIN d.parts |->
        [j \in DOMAIN d.parts[i].sections |->
            <<d.parts[i].sections[j].section_id,
              [k \in DOMAIN Get(d.parts[i].sections[j], "subsections", <<>>) |->
                  d.parts[i].sections[j].subsections[k].subsection_id]>>]]

\* the ids made of the numbers d holds now
IdsFromNumbers(d) ==
    [i \in DOMAIN d.parts |->
        [j \in DOMAIN d.parts[i].sections |->
            <<SectionId(d.parts[i].part_number, d.parts[i].sections[j].section_number),
              [k \in DOMAIN Get(d.parts[i].sections[j], "subsections", <<>>) |->
                  SubsectionId(d.parts[i].part_number,
                               d.parts[i].sections[j].section_number,
                               d.parts[i].sections[j].subsections[k].subsection_number)]>>]]

\* the positions from the id pass of the Enhancer on
IdsAdded ==
    pc \in {"ids_added", "terms_extracted", "tokens_estimated", "parts_summarized",
            "enhanced"}

\* C8: once add_hierarchical_section_ids has run every section_id is
\* part_number.section_number and every subsection_id is
\* part_number.section_number.subsection_number of the current numbers,
\* whatever ids the document held before; and the Enhancer applied to its
\* own output leaves every id as it is.
IdsPureAndStable ==
    /\ IdsAdded => Ids(doc) = IdsFromNumbers(doc)
    /\ pc = "enhanced" => Ids(enhance_document(doc)) = Ids(doc)

\* the Enhancer has run on a document of a PRELIMINARY Part whose Section
\* 5.1 has two Subsections
IdsPureAndStableWitness ==
    /\ pc = "enhanced"
    /\ doc.parts[1].sections[1].section_id =
          <<"P","R","E","L","I","M","I","N","A","R","Y",".","5",".","1">>
    /\ Len(doc.parts[1].sections[1].subsections) = 2
    /\ doc.bilingual_terms # <<>>

\* ------------------------------------------------------------------------
\* Properties of the Flattener
\* ------------------------------------------------------------------------

\* the (part_number, section_number, subsection_number or None) triple a
\* chunk was made for
ChunkTriple(chunk) ==
    <<chunk.metadata.part_number, chunk.metadata.section_number,
      Get(chunk.metadata, "subsection_number", None)>>

\* C9: the id of a chunk is generate_chunk_id of the configured pair and of
\* its triple alone, and two chunks made for distinct triples have distinct
\* ids; a section chunk and a subsection chunk never share an id.
ChunkIdsInjective ==
    pc = "flattened" =>
        /\ \A a \in DOMAIN chunks :
              chunks[a].id = generate_chunk_id(JURISDICTION_ABBR, ACT_ABBR,
                                 ChunkTriple(chunks[a])[1], ChunkTriple(chunks[a])[2],
                                 ChunkTriple(chunks[a])[3])
        /\ \A a, b \in DOMAIN chunks :
              ChunkTriple(chunks[a]) # ChunkTriple(chunks[b]) => chunks[a].id # chunks[b].id
        /\ \A a, b \in DOMAIN chunks :
              chunks[a].metadata.chunk_type # chunks[b].metadata.chunk_type
              => chunks[a].id # chunks[b].id

\* a section chunk and a subsection chunk of the same Part and Section
\* numbers have been emitted
ChunkIdsInjectiveWitness ==
    /\ pc = "flattened"
    /\ Len(chunks) = 2
    /\ chunks[1].metadata.chunk_type = "section"
    /\ chunks[2].metadata.chunk_type = "subsection"
    /\ chunks[1].metadata.part_number = chunks[2].metadata.part_number
    /\ chunks[1].metadata.section_number = chunks[2].metadata.section_number

\* the own texts of the nodes the Flattener makes chunks of, in document
\* order: of each Subsection, and of each Section without Subsections
OwnTexts(d) ==
    Flatten([i \in DOMAIN d.parts |->
        Flatten([j \in DOMAIN d.parts[i].sections |->
            IF Get(d.parts[i].sections[j], "subsections", <<>>) # <<>>
            THEN [k \in DOMAIN d.parts[i].sections[j].subsections |->
                     Get(d.parts[i].sections[j].subsections[k], "subsection_text", <<>>)]
            ELSE <<Get(d.parts[i].sections[j], "section_text", <<>>)>>])])

\* the texts of a list that are at least n long, in order
RECURSIVE LongEnough(_, _)
LongEnough(texts, n) ==
    IF texts = <<>> THEN <<>>
    ELSE (IF Len(Head(texts)) >= n THEN <<Head(texts)>> ELSE <<>>)
         \o LongEnough(Tail(texts), n)

\* C10: a chunk is emitted for a Subsection, or for a Section without
\* Subsections, if and only if the node's own text is at least
\* MIN_CHUNK_LENGTH long: the texts of the chunks are, in order, exactly the
\* own texts that long, so a text of 19 characters or less or a missing one
\* yields none, one of 20 yields one, and no chunk is shorter.
ChunkIffLongEnough ==
    pc = "flattened" =>
        /\ [k \in DOMAIN chunks |-> chunks[k].text] = LongEnough(OwnTexts(doc), MIN_CHUNK_LENGTH)
        /\ \A k \in DOMAIN chunks : Len(chunks[k].text) >= MIN_CHUNK_LENGTH

\* the Flattener has run on a Section of 20 characters and on Subsections
\* of 19 characters and of none, and emitted the one chunk
ChunkIffLongEnoughWitness ==
    /\ pc = "flattened"
    /\ Get(doc.parts[1].sections[1], "section_text", <<>>) = Filler(MIN_CHUNK_LENGTH)
    /\ Len(doc.parts[1].sections) = 2
    /\ Get(doc.parts[1].sections[2].subsections[1], "subsection_text", <<>>)
          = Filler(MIN_CHUNK_LENGTH - 1)
    /\ "subsection_text" \notin DOMAIN doc.parts[1].sections[2].subsections[2]
    /\ Len(chunks) = 1
    /\ chunks[1].text = Filler(MIN_CHUNK_LENGTH)

\* the (i, j) places of the Sections of the document
Places(d) ==
    UNION {{<<i, j>> : j \in DOMAIN d.parts[i].sections} : i \in DOMAIN d.parts}

\* no two Sections of the document carry the same Part and Section numbers,
\* so that a chunk names the Section it was made for
PlacesNamed(d) ==
    \A p, q \in Places(d) :
        (/\ d.parts[p[1]].part_number = d.parts[q[1]].part_number
         /\ d.parts[p[1]].sections[p[2]].section_number
               = d.parts[q[1]].sections[q[2]].section_number) => p = q

\* the indices of the chunks made for the Section at place p
ChunksOf(d, p) ==
    {k \in DOMAIN chunks :
        /\ chunks[k].metadata.part_number = d.parts[p[1]].part_number
        /\ chunks[k].metadata.section_number = d.parts[p[1]].sections[p[2]].section_number}

\* the indices of the Subsections of a Section that carry this number
SubsectionsNumbered(section, number) ==
    {m \in DOMAIN section.subsections : section.subsections[m].subsection_number = number}

\* the chunks at K are subsection chunks of distinct Subsections of the
\* Section, in the order of the Subsections
InSubsectionOrder(section, K) ==
    /\ \A k \in K :
          /\ chunks[k].metadata.chunk_type = "subsection"
          /\ "subsection_number" \in DOMAIN chunks[k].metadata
          /\ SubsectionsNumbered(section, chunks[k].metadata.subsection_number) # {}
    /\ \A a, b \in K :
          a < b => \E m \in SubsectionsNumbered(section, chunks[a].metadata.subsection_number),
                      n \in SubsectionsNumbered(section, chunks[b].metadata.subsection_number) :
                      m < n
    /\ Cardinality(K) <= Len(section.subsections)

\* C11: the Flattener never emits twice: for a Section with Subsections the
\* chunks made for it are subsection chunks only, at most one per Subsection
\* and in Subsection order, and none for the Section itself, even when every
\* Subsection is filtered out; for a Section without Subsections there is at
\* most one chunk, of type section, with no subsection_number.
NeverDoubleEmits ==
    (pc = "flattened" /\ PlacesNamed(doc)) =>
        \A p \in Places(doc) :
            IF Get(doc.parts[p[1]].sections[p[2]], "subsections", <<>>) # <<>>
            THEN InSubsectionOrder(doc.parts[p[1]].sections[p[2]], ChunksOf(doc, p))
            ELSE /\ Cardinality(ChunksOf(doc, p)) <= 1
                 /\ \A k \in ChunksOf(doc, p) :
                       /\ chunks[k].metadata.chunk_type = "section"
                       /\ "subsection_number" \notin DOMAIN chunks[k].metadata

\* the Flattener has run on a Section with a long text whose two Subsections
\* are both too short, next to a Section without Subsections that gave its
\* one chunk
NeverDoubleEmitsWitness ==
    /\ pc = "flattened"
    /\ PlacesNamed(doc)
    /\ Len(doc.parts) = 1 /\ Len(doc.parts[1].sections) = 2
    /\ Get(doc.parts[1].sections[2], "section_text", <<>>) = Filler(MIN_CHUNK_LENGTH + 1)
    /\ Len(Get(doc.parts[1].sections[2], "subsections", <<>>)) = 2
    /\ \A m \in 1..2 :
          TooShort(Get(doc.parts[1].sections[2].subsections[m], "subsection_text", <<>>))
    /\ ChunksOf(doc, <<1, 2>>) = {}
    /\ Len(chunks) = 1 /\ chunks[1].metadata.chunk_type = "section"

\* the amendment record of a dict as a list: empty when it has none
Amendment(d) == IF "amendment_info" \in DOMAIN d THEN <<d.amendment_info>> ELSE <<>>

\* the record a subsection chunk is to carry: the Subsection's own, else the
\* Section's, else none
InheritedAmendment(section, subsection) ==
    IF Amendment(subsection) # <<>> THEN Amendment(subsection) ELSE Amendment(section)

\* C12: the amendment_info of a subsection chunk is the Subsection's own
\* record when it has one, else the record of the parent Section when that
\* has one, and the key is absent when neither has; the amendment_info of a
\* section chunk is the Section's record or absent.
AmendmentInherited ==
    (pc = "flattened" /\ PlacesNamed(doc)) =>
        \A p \in Places(doc) : \A k \in ChunksOf(doc, p) :
            IF chunks[k].metadata.chunk_type = "subsection"
            THEN \A m \in SubsectionsNumbered(doc.parts[p[1]].sections[p[2]],
                                              chunks[k].metadata.subsection_number) :
                    Amendment(chunks[k].metadata)
                    = InheritedAmendment(doc.parts[p[1]].sections[p[2]],
                                         doc.parts[p[1]].sections[p[2]].subsections[m])
            ELSE Amendment(chunks[k].metadata) = Amendment(doc.parts[p[1]].sections[p[2]])

\* the Flattener has run on a Section with a record of its own whose first
\* Subsection has another record and whose second has none: the first chunk
\* carries the Subsection's, the second the Section's
AmendmentInheritedWitness ==
    /\ pc = "flattened"
    /\ PlacesNamed(doc)
    /\ Len(doc.parts) = 1 /\ Len(doc.parts[1].sections) = 2
    /\ Amendment(doc.parts[1].sections[1]) = <<>>
    /\ Amendment(doc.parts[1].sections[2]) = <<SectionRecord>>
    /\ Len(Get(doc.parts[1].sections[2], "subsections", <<>>)) = 2
    /\ Amendment(doc.parts[1].sections[2].subsections[1]) = <<SubsectionRecord>>
    /\ Amendment(doc.parts[1].sections[2].subsections[2]) = <<>>
    /\ Len(chunks) = 3
    /\ Amendment(chunks[1].metadata) = <<>>
    /\ Amendment(chunks[2].metadata) = <<SubsectionRecord>>
    /\ Amendment(chunks[3].metadata) = <<SectionRecord>>
    /\ SubsectionRecord # SectionRecord

\* ------------------------------------------------------------------------
\* Properties of extract_amendment_info
\* ------------------------------------------------------------------------

\* extract_amendment_info has returned
Extracted == pc = "answered" /\ argument.function = "extract_amendment_info"

\* the record holds the year, the chapter and the date of the citation c,
\* and its number under the key given
RecordOf(info, c, key) ==
    /\ info # NoInfo
    /\ info.year = c.year
    /\ info.chapter = c.chapter
    /\ key \in DOMAIN info /\ info[key] = c.section
    /\ "effective_date" \in DOMAIN info /\ info.effective_date = c.date

\* 'Rent increase guideline. 2013, c. 3, s. 20 - 01/06/2014'
CitedGuideline ==
    Guideline \o <<" ">>
    \o <<"2","0","1","3",","," ","c","."," ","3",","," ","s","."," ","2","0",
         " ","-"," ","0","1","/","0","6","/","2","0","1","4">>

\* C13 as stated: for a body followed by a citation the function returns the
\* body without the citation and the separator before it, and a record with
\* the year, chapter, section and effective_date of the citation; a text
\* without a citation is returned unchanged with no record.
ExtractionRoundTrip ==
    Extracted =>
        IF argument.cited # <<>>
        THEN /\ result.text = argument.body
             /\ RecordOf(result.info, argument.cited[1], "section")
        ELSE result = [text |-> argument.text, info |-> NoInfo]

\* What the function does where C13 fails: the number M of the citation is
\* stored under the key schedule and not section when the text holds
\* 'Sched.' anywhere, and a text without a citation that holds 'Section
\* Amendments with date in force', in any case, is returned as the empty
\* text.  For 'Rent increase guideline. 2013, c. 3, s. 20 - 01/06/2014' the
\* result is 'Rent increase guideline.' and year 2013, chapter 3, section
\* 20, effective_date 01/06/2014.
ExtractionAsCoded ==
    Extracted =>
        /\ IF argument.cited # <<>>
           THEN /\ result.text = argument.body
                /\ IF Contains(argument.text, <<"S","c","h","e","d",".">>)
                   THEN /\ RecordOf(result.info, argument.cited[1], "schedule")
                        /\ "section" \notin DOMAIN result.info
                   ELSE /\ RecordOf(result.info, argument.cited[1], "section")
                        /\ "schedule" \notin DOMAIN result.info
           ELSE IF ContainsCI(argument.text, SectionAmendmentsHeader)
                THEN result = [text |-> <<>>, info |-> NoInfo]
                ELSE result = [text |-> argument.text, info |-> NoInfo]
        /\ argument.text = CitedGuideline =>
              /\ result.text = Guideline
              /\ result.info.year = <<"2","0","1","3">>
              /\ result.info.chapter = <<"3">>
              /\ result.info.section = <<"2","0">>
              /\ result.info.effective_date = <<"0","1","/","0","6","/","2","0","1","4">>

\* the function has returned for the text of the example
ExtractedGuideline ==
    /\ Extracted
    /\ argument.text = CitedGuideline
    /\ result.text = Guideline
    /\ result.info.section = <<"2","0">>

\* ------------------------------------------------------------------------
\* Properties of the whole pipeline
\* ------------------------------------------------------------------------

PartIVHeader == <<"P","A","R","T"," ","I","V"," ","-"," ","B","O","A","R","D">>

\* the merged fragments of the streams: the text, its body, the Part header
\* it ends with, and the number and title of the Part of that header
MergedFragments ==
    {[text |-> MergedPart, body |-> <<"a","n","d"," ","s","o"," ","o","n",".">>,
      header |-> PartIVHeader, number |-> <<"I","V">>, title |-> <<"B","O","A","R","D">>],
     [text |-> MergedLowerPart, body |-> <<"s","e","e"," ","a","b","o","v","e">>,
      header |-> <<"p","a","r","t"," ","i","i"," ",EnDash," ","r","e","n","t">>,
      number |-> <<"I","I">>, title |-> <<"R","E","N","T">>]}

\* the loop does not skip the element: it is not blank and no large Table
Processed(element) ==
    /\ Strip(element.text) # <<>>
    /\ ~(element.category = TableCategory /\ Len(Strip(element.text)) > TableNoiseLength)

\* the step appends a Part of this number and title, which becomes current
PartAppended(number, title) ==
    /\ heap' = Append(heap, [part_number |-> number, part_title |-> title,
                             sections |-> <<>>])
    /\ document'.parts = Append(document.parts, Len(heap'))
    /\ current_part' = Len(heap')

\* C15: when a plain-continuation fragment ends with a merged Part header,
\* the body is appended to the current context and the Part text goes to the
\* deferred buffer; the next fragment the loop processes replays the
\* deferred text as a Part header: a Part of its numeral and title is
\* appended to the parts and the buffer is emptied; until then the buffer
\* keeps the text.
DeferredPartReplayed ==
    [][/\ \A m \in MergedFragments :
             (/\ ProcessElement
              /\ pending_part_text = None /\ pending_part_number = None
              /\ current_schedule = 0
              /\ elements[idx + 1].text = m.text)
             => /\ pending_part_text' = m.header
                /\ heap' = append_to_context(Builder, m.body).heap
                /\ document'.parts = document.parts
       /\ (ProcessElement /\ pending_part_text # None /\ Processed(elements[idx + 1]))
             => /\ pending_part_text' = None
                /\ \E m \in MergedFragments :
                      pending_part_text = m.header /\ PartAppended(m.number, m.title)
       /\ (pending_part_text # None /\ pending_part_text' # pending_part_text)
             => ProcessElement /\ Processed(elements[idx + 1])]_vars

\* the body of a merged fragment has gone to the text of the open Section,
\* a blank fragment has passed, and the fragment after it has replayed the
\* deferred text: Part IV, BOARD is the last Part and the buffer is empty
DeferredPartReplayedWitness ==
    /\ pc = "parsing"
    /\ idx = 4
    /\ elements[1].text = SectionHeader
    /\ elements[2].text = MergedPart
    /\ elements[3].text = Blank
    /\ pending_part_text = None
    /\ Len(document.parts) = 2
    /\ heap[document.parts[2]].part_number = <<"I","V">>
    /\ heap[document.parts[2]].part_title = <<"B","O","A","R","D">>
    /\ heap[heap[document.parts[1]].sections[1]].section_text
          = <<" ">> \o <<"a","n","d"," ","s","o"," ","o","n",".">>

\* ------------------------------------------------------------------------
\* Properties of the repair sequence
\* ------------------------------------------------------------------------

\* the five repair passes of post_process_document, in their order
Repaired(d) ==
    [add_metadata(d) EXCEPT
        !.parts = remove_empty_fields(clean_section_text_whitespace(
                      split_merged_section_titles(fix_duplicate_section_numbers(@))))]

\* the section numbers, titles, merge_detected records and text fields of
\* the Parts, a missing one as Absent
RepairedFields(parts) ==
    [i \in DOMAIN parts |->
        <<Get(parts[i], "description", Absent),
          [j \in DOMAIN parts[i].sections |->
              <<parts[i].sections[j].section_number,
                Get(parts[i].sections[j], "section_title", Absent),
                Get(parts[i].sections[j], "merge_detected", Absent),
                Get(parts[i].sections[j], "section_text", Absent),
                [k \in DOMAIN Get(parts[i].sections[j], "subsections", <<>>) |->
                    <<Get(parts[i].sections[j].subsections[k], "subsection_text", Absent),
                      [l \in DOMAIN Get(parts[i].sections[j].subsections[k], "paragraphs", <<>>) |->
                          Get(parts[i].sections[j].subsections[k].paragraphs[l], "text", Absent)]
                    >>] >>] >>]

TextOf(element) ==
    IF pending_part_text # None THEN pending_part_text ELSE Strip(element.text)

\* no rule before the last one takes the text: it is a plain continuation
PlainContinuation(text) ==
    /\ ~schedule_match(text).ok
    /\ current_schedule # 0 => schedule_part_match(text)
    /\ pending_part_number = None
    /\ ~part_match(text).ok
    /\ ~multiline_part_match(text).ok
    /\ ~part_number_only(text).ok
    /\ ~amendment_header_match(text)
    /\ ~(/\ extract_amendment_info(text).info # NoInfo
         /\ Len(text) < StandaloneAmendmentMaxLength)
    /\ ~definition_match(text).ok
    /\ ~(section_match(text).ok /\ Len(text) < SectionHeaderMaxLength)
    /\ ~(subsection_match(text).ok /\ current_section # 0)
    /\ ~(paragraph_match(text).ok /\ current_subsection # 0)

\* the step is the iteration of the loop on a plain continuation
ContinuationStep ==
    /\ ProcessElement
    /\ Processed(elements[idx + 1])
    /\ PlainContinuation(TextOf(elements[idx + 1]))

\* the text a plain continuation appends: the body before a merged Part
\* header, else all of it
AppendedText(text) ==
    IF split_merged_content(text).part # None
    THEN split_merged_content(text).main ELSE text

NoTarget == <<0, "none">>

\* the dict and key the append goes to, by the priority of the contexts
Target ==
    IF current_subsection # 0
    THEN IF heap[current_subsection].paragraphs # <<>>
         THEN <<Last(heap[current_subsection].paragraphs), "text">>
         ELSE <<current_subsection, "subsection_text">>
    ELSE IF current_section # 0
    THEN IF heap[current_section].subsections = <<>>
         THEN <<current_section, "section_text">>
         ELSE <<Last(heap[current_section].subsections), "subsection_text">>
    ELSE IF current_part # 0 /\ heap[current_part].sections = <<>>
    THEN <<current_part, "description">>
    ELSE NoTarget

\* the step appends the text to the key of the dict and changes no other
\* dict, no other key and no list of the document
AppendedTo(target, text) ==
    /\ heap' = [heap EXCEPT ![target[1]] =
                   WithKey(@, target[2],
                           IF target[2] \in DOMAIN @ THEN Joined(@[target[2]], text)
                           ELSE text)]
    /\ document'.parts = document.parts
    /\ document'.schedules = document.schedules
    /\ document'.definitions = document.definitions
    /\ document'.amendments = document.amendments

\* the step changes no dict and no list of the document
TreeUnchanged ==
    /\ heap' = heap
    /\ document'.parts = document.parts
    /\ document'.schedules = document.schedules
    /\ document'.definitions = document.definitions
    /\ document'.amendments = document.amendments

\* C17: a plain-continuation fragment is appended to exactly one target and
\* changes nothing else in the tree; the target is the last Paragraph of the
\* current Subsection, else the current Subsection's text, else the current
\* Section's text when it has no Subsections, else the text of its last
\* Subsection, else the description of the current Part without Sections.
ContinuationAppendedOnce ==
    [][ContinuationStep
          => /\ Target # NoTarget
             /\ AppendedTo(Target, AppendedText(TextOf(elements[idx + 1])))]_vars

\* C17, for the fragments that find a context open: a plain-continuation
\* fragment met while a Subsection, a Section or a Part without Sections is
\* current is appended to the one target of the priority above and changes
\* nothing else in the tree; met while none is current it changes nothing
\* in the tree.
ContinuationAppendedWhenOpen ==
    [][ContinuationStep
          => IF Target # NoTarget
             THEN AppendedTo(Target, AppendedText(TextOf(elements[idx + 1])))
             ELSE TreeUnchanged]_vars

\* a plain fragment has followed a Section header, a Subsection marker and
\* a Paragraph marker and stands at the end of the Paragraph's text
ContinuationAppendedWitness ==
    /\ pc = "parsing"
    /\ idx = 4
    /\ elements[1].text = SectionHeader
    /\ elements[2].text = SubsectionMarker
    /\ elements[3].text = ParagraphA
    /\ elements[4].text = MergedPart
    /\ current_subsection # 0
    /\ Len(heap[current_subsection].paragraphs) = 1
    /\ heap[heap[current_subsection].paragraphs[1]].text
          = <<"t","o"," ","p","r","o","t","e","c","t"," ","t","e","n","a","n","t","s",
              " ","a","n","d"," ","s","o"," ","o","n",".">>

\* ------------------------------------------------------------------------
\* Properties of the open Schedule
\* ------------------------------------------------------------------------

\* the dict is a Part or a Schedule
PartOrSchedule(d) == "part_number" \in DOMAIN d \/ "schedule_id" \in DOMAIN d

\* C18: in every state of the builder an open Schedule excludes an open
\* Part, Section and Subsection; a fragment met while a Schedule is open
\* creates no Section, Subsection, Paragraph, Definition or Amendment entry
\* and adds no text to a Part: the only dicts it makes are Parts and
\* Schedules and the only dicts it changes are Schedules.
ScheduleExcludesPosition ==
    /\ [](current_schedule # 0
            => current_part = 0 /\ current_section = 0 /\ current_subsection = 0)
    /\ [][(current_schedule # 0 /\ ProcessElement)
            => /\ \A i \in DOMAIN heap' \ DOMAIN heap : PartOrSchedule(heap'[i])
               /\ \A i \in DOMAIN heap :
                     i \notin Range(document.schedules) => heap'[i] = heap[i]
               /\ document'.definitions = document.definitions
               /\ document'.amendments = document.amendments]_vars

\* a Part and a Section were open, a Schedule header has closed them, and a
\* fragment that reads like a Section header has gone to the Schedule's
\* content
ScheduleExcludesPositionWitness ==
    /\ pc = "parsing"
    /\ idx = 3
    /\ elements[1].text = SectionHeader
    /\ elements[2].text = ScheduleHeader
    /\ elements[3].text = SectionFive
    /\ current_schedule # 0
    /\ heap[current_schedule].content = <<" ">> \o SectionFive
    /\ Len(document.parts) = 1
    /\ Len(heap[document.parts[1]].sections) = 1

\* the text matches one of the three patterns of a Part header
IsPartHeader(text) ==
    \/ part_match(text).ok
    \/ multiline_part_match(text).ok
    \/ part_number_only(text).ok

\* the step is the iteration of the loop, with a Schedule open, on a
\* fragment that is no Schedule header
FragmentInSchedule ==
    /\ ProcessElement
    /\ Processed(elements[idx + 1])
    /\ current_schedule # 0
    /\ ~schedule_match(TextOf(elements[idx + 1])).ok

\* the step leaves the content of the open Schedule as it is and closes it
ScheduleClosed ==
    /\ current_schedule' = 0
    /\ heap'[current_schedule].content = heap[current_schedule].content

\* the step appends the text to the content of the open Schedule, which
\* stays open
ScheduleContinued(text) ==
    /\ current_schedule' = current_schedule
    /\ heap'[current_schedule].content = Joined(heap[current_schedule].content, text)

\* C19: while a Schedule is open, every fragment that matches a pattern of
\* a Part header (single-line with dash, multi-line, number-only; roman or
\* integer numeral) closes the Schedule and is not appended to its content;
\* every other fragment is appended to the content and the Schedule stays
\* open.
PartHeaderClosesSchedule ==
    [][FragmentInSchedule
          => IF IsPartHeader(TextOf(elements[idx + 1]))
             THEN ScheduleClosed
             ELSE ScheduleContinued(TextOf(elements[idx + 1]))]_vars

\* the rule of the code: the Schedule is closed by the texts that start
\* with "PART", white space and a roman letter, in either case, and by no
\* other
RomanPrefixClosesSchedule ==
    [][FragmentInSchedule
          => IF schedule_part_match(TextOf(elements[idx + 1]))
             THEN ScheduleClosed
             ELSE ScheduleContinued(TextOf(elements[idx + 1]))]_vars

\* a Part header with an integer numeral stands in the content of a
\* Schedule that is still open
PartHeaderInContent ==
    /\ pc = "parsing"
    /\ idx = 2
    /\ elements[2].text = PartTwoHeader
    /\ current_schedule # 0
    /\ heap[current_schedule].content = <<" ">> \o PartTwoHeader

\* ------------------------------------------------------------------------
\* Properties of the Part-number lookahead
\* ------------------------------------------------------------------------

\* the fragments before the one at hand that the loop did not skip
ProcessedBefore == {k \in 1..idx : Processed(elements[k])}

\* the last fragment the loop processed before the one at hand is the Part
\* number alone that stands in the lookahead
FollowsNumberOnly ==
    /\ ProcessedBefore # {}
    /\ \E j \in ProcessedBefore :
          /\ \A k \in ProcessedBefore : k <= j
          /\ part_number_only(Strip(elements[j].text)).ok
          /\ Upper(part_number_only(Strip(elements[j].text)).g1) = pending_part_number

\* the step emits the Part of the lookahead with this title, empties the
\* lookahead and closes the Section, the Subsection and the Schedule
LookaheadEmitted(title) ==
    /\ PartAppended(pending_part_number, title)
    /\ pending_part_number' = None
    /\ current_section' = 0
    /\ current_subsection' = 0
    /\ current_schedule' = 0

\* the step is an iteration of the loop that appends a Part while the
\* lookahead is set
EmitsWithLookahead ==
    /\ ProcessElement
    /\ Processed(elements[idx + 1])
    /\ pending_part_number # None
    /\ document'.parts # document.parts

\* C20: the Part emitted for a number in the lookahead has as its title the
\* fragment that immediately follows the number-only fragment, empty and
\* skipped Table fragments aside, and no other fragment; emitting it
\* empties the lookahead and closes the Section, Subsection and Schedule.
LookaheadTitleFollows ==
    [][EmitsWithLookahead
          => /\ FollowsNumberOnly
             /\ LookaheadEmitted(Upper(TextOf(elements[idx + 1])))]_vars

\* the rule of the code: with the lookahead set, the first fragment that
\* gets past the Schedule rules becomes the title, in upper case, of the
\* Part of the lookahead; a Schedule header and the content of an open
\* Schedule leave the lookahead as it is.
LookaheadTitlePastSchedule ==
    [][(/\ ProcessElement
        /\ Processed(elements[idx + 1])
        /\ pending_part_number # None)
          => IF \/ schedule_match(TextOf(elements[idx + 1])).ok
                \/ current_schedule # 0 /\ ~schedule_part_match(TextOf(elements[idx + 1]))
             THEN pending_part_number' = pending_part_number
                  /\ document'.parts = document.parts
             ELSE LookaheadEmitted(Upper(TextOf(elements[idx + 1])))]_vars

\* a Schedule header has followed the Part number alone and the header of
\* another Part has become the title of the Part of the lookahead
LookaheadTitleAfterSchedule ==
    /\ pc = "parsing"
    /\ idx = 3
    /\ elements[1].text = PartNumberOnly
    /\ elements[2].text = ScheduleHeader
    /\ elements[3].text = PartIHeader
    /\ Len(document.parts) = 1
    /\ heap[document.parts[1]].part_number = <<"I","I","I">>
    /\ heap[document.parts[1]].part_title = PartIHeader

\* ------------------------------------------------------------------------
\* Properties of the end of the stream
\* ------------------------------------------------------------------------

\* the text reaches the rule of the Part number alone and matches it
NumberOnlyStep ==
    /\ ProcessElement
    /\ Processed(elements[idx + 1])
    /\ pending_part_number = None
    /\ ~schedule_match(TextOf(elements[idx + 1])).ok
    /\ current_schedule # 0 => schedule_part_match(TextOf(elements[idx + 1]))
    /\ ~part_match(TextOf(elements[idx + 1])).ok
    /\ ~multiline_part_match(TextOf(elements[idx + 1])).ok
    /\ part_number_only(TextOf(elements[idx + 1])).ok

\* the step is a plain continuation that ends with a merged Part header
MergedStep ==
    /\ ContinuationStep
    /\ split_merged_content(TextOf(elements[idx + 1])).part # None

\* C21: a fragment that sets the Part-number lookahead or the deferred Part
\* text appends no Part, and neither does any step that leaves one of them
\* set; when the stream ends the builder returns, whatever is pending, and
\* the returned Document has the Parts appended so far and no other: no
\* Part stands for the pending number or text.
PendingAtEndEmitsNoPart ==
    /\ [](pc = "parsing" /\ idx = Len(elements) => ENABLED Return)
    /\ [](pc = "returned" => Len(doc.parts) = Len(document.parts))
    /\ [][/\ NumberOnlyStep
             => /\ pending_part_number'
                     = Upper(part_number_only(TextOf(elements[idx + 1])).g1)
                /\ document'.parts = document.parts
          /\ MergedStep
             => /\ pending_part_text' = split_merged_content(TextOf(elements[idx + 1])).part
                /\ document'.parts = document.parts
          /\ (ProcessElement /\ (pending_part_number' # None \/ pending_part_text' # None))
             => document'.parts = document.parts
          /\ Return
             => /\ pc' = "returned"
                /\ document' = document
                /\ pending_part_number' = pending_part_number
                /\ pending_part_text' = pending_part_text]_vars

\* the stream has ended on the number of Part III alone, after the header
\* of Part I: the builder has returned one Part, Part I
PendingAtEndWitness ==
    /\ pc = "returned"
    /\ Len(elements) = 2
    /\ elements[1].text = PartIHeader
    /\ elements[2].text = PartNumberOnly
    /\ pending_part_number = <<"I","I","I">>
    /\ Len(doc.parts) = 1
    /\ doc.parts[1].part_number = <<"I">>

\* the stream has ended on a fragment with a merged Part header: the
\* builder has returned with the deferred text and without Part IV
DeferredAtEnd ==
    /\ pc = "returned"
    /\ pending_part_text = PartIVHeader
    /\ \A i \in DOMAIN doc.parts : doc.parts[i].part_number # <<"I","V">>

\* ------------------------------------------------------------------------
\* Properties of the PRELIMINARY Part
\* ------------------------------------------------------------------------

Preliminary == <<"P","R","E","L","I","M","I","N","A","R","Y">>

\* the positions of the PRELIMINARY Parts in the list of Parts
PreliminaryParts ==
    {i \in DOMAIN document.parts : heap[document.parts[i]].part_number = Preliminary}

\* the step allocates a PRELIMINARY Part
PreliminaryCreated ==
    /\ ProcessElement
    /\ \E i \in DOMAIN heap' \ DOMAIN heap :
          /\ "part_number" \in DOMAIN heap'[i]
          /\ heap'[i].part_number = Preliminary

\* C22: a PRELIMINARY Part is created only while the list of Parts is
\* empty; the list holds at most one PRELIMINARY Part and it is the first
\* element.
PreliminaryOnlyWhenEmpty ==
    /\ [](PreliminaryParts \subseteq {1})
    /\ [][PreliminaryCreated => document.parts = <<>>]_vars

\* the rule of the code: a PRELIMINARY Part is created by a Section header
\* met while no Part is current, and it is put in front of the list
PreliminaryWhenNoPartCurrent ==
    [][PreliminaryCreated
          => /\ current_part = 0
             /\ document'.parts = <<Len(heap) + 1>> \o document.parts
             /\ current_part' = Len(heap) + 1
             /\ Len(heap'[current_part'].sections) = 1]_vars

\* a PRELIMINARY Part stands in front of Part I, whose header came first
PreliminaryBeforeEarlierPart ==
    /\ pc = "parsing"
    /\ idx = 4
    /\ elements[1].text = PartIHeader
    /\ Len(document.parts) = 2
    /\ heap[document.parts[1]].part_number = Preliminary
    /\ heap[document.parts[2]].part_number = <<"I">>

\* ------------------------------------------------------------------------
\* Properties of the Act metadata
\* ------------------------------------------------------------------------

\* the text carries the marker of the act name
ActNameMarker(text) ==
    /\ Contains(text, <<"A","c","t">>)
    /\ Len(text) < ActNameMaxLength
    /\ ~Contains(Upper(text), <<"P","A","R","T">>)

\* the text carries the marker of the citation
CitationMarker(text) ==
    /\ Contains(text, <<"S",".","O",".">>)
    /\ Len(text) < CitationMaxLength

\* the step is the iteration of the loop on a fragment it does not skip
FragmentStep == ProcessElement /\ Processed(elements[idx + 1])

\* C23: act_name and citation are each set from the first fragment with
\* the marker of the field and are never overwritten once they hold a
\* value; the citation is set from the first fragment with its marker
\* whether or not the act name is set.
MetadataSetOnce ==
    [][FragmentStep
          => /\ document'.act_name =
                   IF document.act_name = None /\ ActNameMarker(TextOf(elements[idx + 1]))
                   THEN TextOf(elements[idx + 1]) ELSE document.act_name
             /\ document'.citation =
                   IF document.citation = None /\ CitationMarker(TextOf(elements[idx + 1]))
                   THEN TextOf(elements[idx + 1]) ELSE document.citation]_vars

\* the rule of the code: while act_name is empty every fragment with the
\* marker of the citation sets the citation anew and the first fragment
\* with the marker of the act name sets act_name; once act_name holds a
\* value neither field changes.
MetadataUntilActName ==
    [][FragmentStep
          => /\ document'.act_name =
                   IF document.act_name = None /\ ActNameMarker(TextOf(elements[idx + 1]))
                   THEN TextOf(elements[idx + 1]) ELSE document.act_name
             /\ document'.citation =
                   IF document.act_name = None /\ CitationMarker(TextOf(elements[idx + 1]))
                   THEN TextOf(elements[idx + 1]) ELSE document.citation]_vars

\* the act name was set by the first fragment and the second fragment, with
\* the marker of the citation, has left the citation empty
CitationMissed ==
    /\ pc = "parsing"
    /\ idx = 2
    /\ elements[1].text = PlainText
    /\ elements[2].text = DefaultCitation
    /\ document.act_name = PlainText
    /\ document.citation = None

\* ------------------------------------------------------------------------
\* Properties of the dropped fragments and the Definitions
\* ------------------------------------------------------------------------

\* the text gets past the Schedule rules and the Part rules
PastPartRules(text) ==
    /\ ~schedule_match(text).ok
    /\ current_schedule # 0 => schedule_part_match(text)
    /\ pending_part_number = None
    /\ ~IsPartHeader(text)

\* the text is taken by the rule of the short standalone citation
StandaloneCitation(text) ==
    /\ ~amendment_header_match(text)
    /\ extract_amendment_info(text).info # NoInfo
    /\ Len(text) < StandaloneAmendmentMaxLength

\* the text is taken by the rule of the Definitions
DefinitionText(text) ==
    /\ ~amendment_header_match(text)
    /\ ~StandaloneCitation(text)
    /\ definition_match(text).ok

\* the step handles the fragment as amendment-header noise, as a short
\* standalone citation or as a Definition
NoiseStep ==
    /\ FragmentStep
    /\ PastPartRules(TextOf(elements[idx + 1]))
    /\ \/ amendment_header_match(TextOf(elements[idx + 1]))
       \/ StandaloneCitation(TextOf(elements[idx + 1]))
       \/ DefinitionText(TextOf(elements[idx + 1]))

\* the step leaves the Parts tree, the current Part, Section and Subsection
\* and both lookahead buffers as they are
PositionKept ==
    /\ heap' = heap
    /\ document'.parts = document.parts
    /\ UNCHANGED <<current_part, current_section, current_subsection,
                   pending_part_text, pending_part_number>>

\* C24: a fragment handled as amendment-header noise, as a short standalone
\* citation or as a Definition leaves the current Part, Section, Subsection
\* and Schedule, both lookahead buffers and the whole Parts tree unchanged.
NoiseKeepsPosition ==
    [][NoiseStep => PositionKept /\ current_schedule' = current_schedule]_vars

\* the rule of the code: such a fragment leaves the Parts tree, the current
\* Part, Section and Subsection and the buffers unchanged, and no Schedule
\* is open after it.
NoiseClosesSchedule ==
    [][NoiseStep => PositionKept /\ current_schedule' = 0]_vars

\* a citation that starts like a Part header has closed the Schedule, and
\* the fragment after it has gone nowhere
ScheduleClosedByNoise ==
    /\ pc = "parsing"
    /\ idx = 3
    /\ elements[1].text = ScheduleHeader
    /\ elements[2].text = PartCitation
    /\ elements[3].text = Prose
    /\ current_schedule = 0
    /\ heap[document.schedules[1]].content = <<>>
    /\ document.parts = <<>>

\* the step drops the fragment as a short standalone amendment citation
StandaloneCitationStep ==
    /\ FragmentStep
    /\ PastPartRules(TextOf(elements[idx + 1]))
    /\ StandaloneCitation(TextOf(elements[idx + 1]))

\* C25: every short standalone amendment citation is appended to the
\* amendments of the document when it is dropped: the list grows by one
\* entry for each such fragment.
StandaloneCitationRecorded ==
    [][StandaloneCitationStep
          => Len(document'.amendments) = Len(document.amendments) + 1]_vars

\* the rule of the code: a short standalone amendment citation changes no
\* list of the document and no dict.
StandaloneCitationDropped ==
    [][StandaloneCitationStep
          => /\ document'.amendments = document.amendments
             /\ document'.definitions = document.definitions
             /\ document'.parts = document.parts
             /\ document'.schedules = document.schedules
             /\ heap' = heap]_vars

\* the citation "2013, c. 3, s. 20" was the only fragment and the document
\* has no Amendment entry
CitationUnrecorded ==
    /\ pc = "returned"
    /\ Len(elements) = 1
    /\ elements[1].text = Citation
    /\ doc.amendments = <<>>

\* ------------------------------------------------------------------------
\* Properties of the headers that end with a citation
\* ------------------------------------------------------------------------

\* the text gets past the rules of the amendment header and the Definitions
\* as far as they do not depend on a citation in it
PastNoiseRules(text) ==
    /\ PastPartRules(text)
    /\ ~amendment_header_match(text)
    /\ ~definition_match(text).ok

\* a Section header within the cap whose title ends with a citation and is
\* more than that citation, and that is no amendment entry
CitedSectionHeader(text) ==
    /\ section_match(text).ok
    /\ Len(text) < SectionHeaderMaxLength
    /\ ~is_amendment_entry(text, section_match(text).g1)
    /\ extract_amendment_info(Strip(section_match(text).g2)).info # NoInfo
    /\ extract_amendment_info(Strip(section_match(text).g2)).text # <<>>

\* a Subsection marker whose text ends with a citation and is more than
\* that citation
CitedSubsectionMarker(text) ==
    /\ ~(section_match(text).ok /\ Len(text) < SectionHeaderMaxLength)
    /\ subsection_match(text).ok
    /\ extract_amendment_info(Strip(subsection_match(text).g2)).info # NoInfo
    /\ extract_amendment_info(Strip(subsection_match(text).g2)).text # <<>>

\* the step appends a dict with this key set to the text and with this
\* amendment_info
CreatedWith(key, text, info) ==
    /\ Len(heap') = Len(heap) + 1
    /\ key \in DOMAIN heap'[Len(heap')]
    /\ heap'[Len(heap')][key] = text
    /\ "amendment_info" \in DOMAIN heap'[Len(heap')]
    /\ heap'[Len(heap')].amendment_info = info

\* the Section or Subsection the claim has the text create
CitedCreated(text) ==
    /\ CitedSectionHeader(text)
       => \E ex \in {extract_amendment_info(Strip(section_match(text).g2))} :
             /\ \E i \in DOMAIN heap' :
                   /\ i > Len(heap)
                   /\ "section_title" \in DOMAIN heap'[i]
                   /\ heap'[i].section_title = clean_section_title(ex.text)
                   /\ "amendment_info" \in DOMAIN heap'[i]
                   /\ heap'[i].amendment_info = ex.info
             /\ current_section' > Len(heap)
    /\ (CitedSubsectionMarker(text) /\ current_section # 0)
       => \E ex \in {extract_amendment_info(Strip(subsection_match(text).g2))} :
             /\ CreatedWith("subsection_text", ex.text, ex.info)
             /\ current_subsection' = Len(heap')

\* C26: a Section header within the cap whose title ends with an amendment
\* citation, and a Subsection marker (with a Section open) whose text ends
\* with one, creates the Section or Subsection with the citation stripped
\* from the title or text and recorded as amendment_info, whatever the
\* length of the fragment.
CitedHeaderCreates ==
    [][(FragmentStep /\ PastNoiseRules(TextOf(elements[idx + 1])))
          => CitedCreated(TextOf(elements[idx + 1]))]_vars

\* the rule of the code: such a fragment creates the Section or Subsection
\* when it has at least as many characters as the cap of the standalone
\* citations, and changes no dict and no list of the document when it has
\* fewer.
CitedHeaderCreatesWhenLong ==
    [][(/\ FragmentStep
        /\ PastNoiseRules(TextOf(elements[idx + 1]))
        /\ \/ CitedSectionHeader(TextOf(elements[idx + 1]))
           \/ CitedSubsectionMarker(TextOf(elements[idx + 1])) /\ current_section # 0)
          => IF Len(TextOf(elements[idx + 1])) >= StandaloneAmendmentMaxLength
             THEN CitedCreated(TextOf(elements[idx + 1]))
             ELSE /\ heap' = heap
                  /\ document'.parts = document.parts
                  /\ document'.amendments = document.amendments]_vars

\* the Section header "5. Rent 2017, c. 13" came first, a plain fragment
\* after it, and the document has no Part and no Amendment entry
CitedSectionDropped ==
    /\ pc = "returned"
    /\ Len(elements) = 2
    /\ elements[1].text = <<"5","."," ","R","e","n","t"," ">> \o ChapterCitation
    /\ doc.parts = <<>>
    /\ doc.amendments = <<>>

\* a long Section header that ends with "2017, c. 13" has created a Section
\* with the citation as its amendment_info
CitedSectionCreated ==
    /\ pc = "parsing"
    /\ idx = 1
    /\ elements[1].text = <<"5","."," ">> \o LongBody \o <<" ">> \o ChapterCitation
    /\ current_section # 0
    /\ heap[current_section].section_title = LongBody
    /\ heap[current_section].amendment_info.citation = ChapterCitation

\* ------------------------------------------------------------------------
\* Properties of the amendment entries
\* ------------------------------------------------------------------------

\* a text of the Section-header pattern, within the cap, whose number has
\* four digits or that holds a chapter and a section
AmendmentEntryText(text) ==
    /\ section_match(text).ok
    /\ Len(text) < SectionHeaderMaxLength
    /\ is_amendment_entry(text, section_match(text).g1)

\* the step is the iteration on such a text, which no earlier rule takes
AmendmentEntryStep ==
    /\ FragmentStep
    /\ PastNoiseRules(TextOf(elements[idx + 1]))
    /\ ~StandaloneCitation(TextOf(elements[idx + 1]))
    /\ AmendmentEntryText(TextOf(elements[idx + 1]))

\* the step appends one entry of the keys year, citation and full_text for
\* this text, the year set for a number of four digits alone
EntryAppended(text) ==
    /\ Len(document'.amendments) = Len(document.amendments) + 1
    /\ SubSeq(document'.amendments, 1, Len(document.amendments)) = document.amendments
    /\ \E entry \in {document'.amendments[Len(document'.amendments)]} :
          /\ DOMAIN entry = {"year", "citation", "full_text"}
          /\ entry.full_text = text
          /\ entry.year = IF Len(section_match(text).g1) = 4
                          THEN section_match(text).g1 ELSE None

ChapterEntryAppended ==
    /\ pc = "parsing"
    /\ idx = 3
    /\ elements[3].text = ChapterLine
    /\ current_subsection # 0
    /\ Len(document.amendments) = 1
    /\ document.amendments[1].year = None
    /\ document.amendments[1].full_text = ChapterLine

\* "5. Rent, c. 3, s. 20" has opened a Section
SpacedChapterLineIsSection ==
    /\ pc = "parsing"
    /\ idx = 1
    /\ elements[1].text = SpacedChapterLine
    /\ current_section # 0
    /\ heap[current_section].section_number = <<"5">>
    /\ document.amendments = <<>>

PastSectionRule(text) ==
    /\ PastNoiseRules(text)
    /\ ~StandaloneCitation(text)
    /\ ~(section_match(text).ok /\ Len(text) < SectionHeaderMaxLength)

\* the step is the iteration on a Subsection marker with no Section open or
\* on a Paragraph marker with no Subsection open
MisplacedMarkerStep ==
    /\ FragmentStep
    /\ PastSectionRule(TextOf(elements[idx + 1]))
    /\ \/ subsection_match(TextOf(elements[idx + 1])).ok /\ current_section = 0
       \/ /\ ~subsection_match(TextOf(elements[idx + 1])).ok
          /\ paragraph_match(TextOf(elements[idx + 1])).ok
          /\ current_subsection = 0

MergedFormAt(title, e) ==
    /\ e \in 2..Len(title)
    /\ title[e] = "."
    /\ \A k \in 1..(e - 1) : title[k] # "\n"
    /\ RunEnd(title, e + 1, "space") > e + 1
    /\ \E a \in {RunEnd(title, e + 1, "space")} :
          /\ RunEnd(title, a, "digit") > a
          /\ RunEnd(title, RunEnd(title, a, "digit"), "space") > RunEnd(title, a, "digit")
          /\ \E c \in {RunEnd(title, RunEnd(title, a, "digit"), "space")} :
                /\ c <= Len(title)
                /\ IsUpper(title[c])
                /\ \A k \in c..Len(title) : title[k] # "\n"

\* the split-off fragment of such a title: the digits, a space and the
\* capitalized text
SplitOff(title, e) ==
    SubSeq(title, RunEnd(title, e + 1, "space"),
           RunEnd(title, RunEnd(title, e + 1, "space"), "digit") - 1)
    \o <<" ">>
    \o SubSeq(title,
              RunEnd(title, RunEnd(title, RunEnd(title, e + 1, "space"), "digit"), "space"),
              Len(title))

\* the Section the pass makes of a Section whose title has the form, the
\* period of the shortest <text> being at e
SplitSection(section, title, e) ==
    [k \in DOMAIN section \cup {"merge_detected"} |->
        IF k = "section_title" THEN Strip(SubSeq(title, 1, e - 1))
        ELSE IF k = "merge_detected" /\ k \notin DOMAIN section
        THEN [original_title |-> title, split_at |-> SplitOff(title, e)]
        ELSE section[k]]

\* the Section the pass makes of a Section
SplitOrKept(section) ==
    IF \E e \in 1..Len(Get(section, "section_title", <<>>)) :
          MergedFormAt(Get(section, "section_title", <<>>), e)
    THEN SplitSection(section, section.section_title,
                      Leftmost({e \in 1..Len(section.section_title) :
                                   MergedFormAt(section.section_title, e)}))
    ELSE section

\* after has the Parts of before with the same Sections in number and
\* order, each split or kept, and nothing else changed
SectionsSplitOrKept(before, after) ==
    /\ DOMAIN after = DOMAIN before
    /\ \A i \in DOMAIN before :
          IF "sections" \notin DOMAIN before[i] THEN after[i] = before[i]
          ELSE /\ DOMAIN after[i] = DOMAIN before[i]
               /\ \A k \in DOMAIN before[i] \ {"sections"} : after[i][k] = before[i][k]
               /\ DOMAIN after[i].sections = DOMAIN before[i].sections
               /\ \A j \in DOMAIN before[i].sections :
                     after[i].sections[j] = SplitOrKept(before[i].sections[j])

\* the merge_detected records of the Sections, Absent where there is none
MergeRecords(parts) ==
    [i \in DOMAIN parts |->
        [j \in DOMAIN Get(parts[i], "sections", <<>>) |->
            Get(parts[i].sections[j], "merge_detected", Absent)]]

\* a second run of the pass keeps every record the Sections have
RecordsKept(parts) ==
    \A i \in DOMAIN parts : \A j \in DOMAIN Get(parts[i], "sections", <<>>) :
        "merge_detected" \in DOMAIN parts[i].sections[j]
        => MergeRecords(split_merged_section_titles(parts))[i][j]
              = parts[i].sections[j].merge_detected

\* C29: merged-title splitting keeps the number and the order of the
\* Sections; a Section whose title has the form <text>. <digits>
\* <Capitalized text> gets the portion before the split as title and a
\* merge_detected record of the original title and the split-off fragment;
\* a Section whose title has not the form is unchanged, no Section is
\* created, and a later run of the pass keeps the first record.
SplitKeepsSections ==
    [][SplitMergedSectionTitles
          => /\ SectionsSplitOrKept(doc.parts, doc'.parts)
             /\ RecordsKept(doc'.parts)]_vars

\* the title "Notice. 10 Term" has been split
SplitKeepsSectionsWitness ==
    /\ pc = "titles_split"
    /\ Len(doc.parts) = 1
    /\ Len(doc.parts[1].sections) = 1
    /\ doc.parts[1].sections[1].section_title = <<"N","o","t","i","c","e">>
    /\ doc.parts[1].sections[1].merge_detected
          = [original_title |-> MergedTitle, split_at |-> <<"1","0"," ","T","e","r","m">>]

\* a second run of the pass cuts the title "X. 5 Y" of a Section that has
\* its record from the first run
TitleSplitTwice ==
    /\ pc = "titles_split"
    /\ Len(doc.parts) = 1
    /\ doc.parts[1].sections[1].section_title = <<"X","."," ","5"," ","Y">>
    /\ doc.parts[1].sections[1].merge_detected.original_title = NestedTitle
    /\ split_merged_section_titles(doc.parts)[1].sections[1].section_title = <<"X">>

\* ------------------------------------------------------------------------
\* Properties of validate_structure
\* ------------------------------------------------------------------------

\* validate_structure has returned
Validated == pc = "answered" /\ argument.function = "validate_structure"

\* the required top-level fields that are missing or empty
MissingFields(d) ==
    {f \in {"act_name", "jurisdiction", "parts"} : f \notin DOMAIN d \/ d[f] = <<>>}

\* the Parts without the key sections
PartsWithoutSections(d) == {i \in DOMAIN d.parts : "sections" \notin DOMAIN d.parts[i]}

\* the Sections without the key section_number
SectionsWithoutNumber(d) ==
    UNION {{<<i, j>> : j \in {k \in DOMAIN d.parts[i].sections :
                                "section_number" \notin DOMAIN d.parts[i].sections[k]}} :
           i \in DOMAIN d.parts \ PartsWithoutSections(d)}

\* the number of violations of the four checks
Violations(d) ==
    Cardinality(MissingFields(d))
    + (IF d.parts = <<>> THEN 1 ELSE 0)
    + Cardinality(PartsWithoutSections(d))
    + Cardinality(SectionsWithoutNumber(d))

\* the document has no Section in a Part that has the key sections
NoSections(d) ==
    \A i \in DOMAIN d.parts \ PartsWithoutSections(d) : d.parts[i].sections = <<>>

SavedAt(at) ==
    CASE at \in {"parsing", "parse_failed"} -> {}
      [] at \in PostProcessing \cup {"post_process_failed"} -> {"raw"}
      [] at \in Enhancing \cup {"enhance_failed"} -> {"raw", "clean"}
      [] at \in {"enhanced", "complete"} -> {"raw", "clean", "final"}

\* a stage has started only when the stages before it have saved their
\* snapshots, and a failed stage has saved nothing
StagesInOrder == written = SavedAt(pc)

\* main has returned 1 exactly when a stage failed, and then nothing runs
FailureStops ==
    /\ (exit_code = <<1>>) = (pc \in Aborted)
    /\ (exit_code = <<0>>) = (pc = "complete")
    /\ pc \in Aborted => ~ENABLED NextDriver

\* the issues of validation do not keep stage 3 from starting
IssuesDoNotStop ==
    (pc = "post_processed" /\ issues # <<>>) => ENABLED AddHierarchicalSectionIds

\* a failing step writes no snapshot, and validation is never a failure
FailingStep ==
    /\ exit_code' = <<1>> => written' = written
    /\ ValidateStructure => (exit_code' = None /\ pc' = "post_processed")

PartFields == {"part_number", "part_title"}
SectionFields ==
    {"section_number", "section_title", "section_text", "amendment_info"}
SubsectionFields ==
    {"subsection_number", "subsection_text", "paragraphs", "amendment_info"}

\* the keys add_metadata of the Post-Processor writes
PostProcessorMetadata == {"processed_date", "version", "parser"}

\* d restricted to the keys it has among keys
Kept(d, keys) == [k \in DOMAIN d \cap keys |-> d[k]]

\* d restricted to keys and to the list under key, each element of the list
\* replaced by its restriction
KeptWithList(d, keys, key, restricted) ==
    Kept(d, keys)
    @@ (IF key \in DOMAIN d THEN (key :> restricted) ELSE <<>>)

SubsectionStructure(subsection) == Kept(subsection, SubsectionFields)

SectionStructure(section) ==
    KeptWithList(section, SectionFields, "subsections",
        [k \in DOMAIN Get(section, "subsections", <<>>) |->
            SubsectionStructure(section.subsections[k])])

PartStructure(part) ==
    KeptWithList(part, PartFields, "sections",
        [j \in DOMAIN Get(part, "sections", <<>>) |-> SectionStructure(part.sections[j])])

\* the Parts, Sections and Subsections of d in their order, with the fields
\* the Enhancer does not derive
Structure(d) == [i \in DOMAIN d.parts |-> PartStructure(d.parts[i])]

\* the metadata of the Post-Processor in d
PostMetadata(d) == Kept(Get(d, "metadata", <<>>), PostProcessorMetadata)

\* C32: a pass of the Enhancer changes or removes no part_number,
\* part_title, section_number, section_title, section_text,
\* subsection_number, subsection_text, paragraphs or amendment_info, keeps
\* the members and the order of the lists of Parts, Sections and
\* Subsections, and keeps the metadata keys the Post-Processor wrote.
EnhancerKeepsStructure ==
    [][NextEnhance => (/\ Structure(doc') = Structure(doc)
                       /\ PostMetadata(doc') = PostMetadata(doc)
                       /\ DOMAIN doc \subseteq DOMAIN doc')]_vars

\* the Enhancer has run on a document with a Subsection that has
\* Paragraphs, and has added its derived fields beside the Post-Processor's
\* metadata
EnhancerKeepsStructureWitness ==
    /\ pc = "enhanced"
    /\ DOMAIN PostMetadata(doc) = PostProcessorMetadata
    /\ "total_sections" \in DOMAIN doc.metadata
    /\ \E i \in DOMAIN doc.parts :
          /\ "summary_hint" \in DOMAIN doc.parts[i]
          /\ \E j \in DOMAIN doc.parts[i].sections :
                /\ "section_id" \in DOMAIN doc.parts[i].sections[j]
                /\ \E k \in DOMAIN Get(doc.parts[i].sections[j], "subsections", <<>>) :
                      /\ "estimated_tokens" \in DOMAIN doc.parts[i].sections[j].subsections[k]
                      /\ "paragraphs" \in DOMAIN doc.parts[i].sections[j].subsections[k]


\* ------------------------------------------------------------------------
\* Token estimates and chunking recommendations (C33)
\* ------------------------------------------------------------------------

\* estimate_token_counts has returned
TokensEstimated == pc = "answered" /\ argument.function = "estimate_token_counts"

\* the estimate of the text under key of node: a quarter of its length,
\* rounded down, 0 without the key
Quarter(node, key) == Len(Get(node, key, <<>>)) \div 4

\* every Section and every Subsection of after carries the estimate of the
\* text it had in before
EstimatesSet(before, after) ==
    \A i \in DOMAIN before.parts :
        \A j \in DOMAIN before.parts[i].sections :
            /\ after.parts[i].sections[j].estimated_tokens
                   = Quarter(before.parts[i].sections[j], "section_text")
            /\ \A k \in DOMAIN Get(before.parts[i].sections[j], "subsections", <<>>) :
                   after.parts[i].sections[j].subsections[k].estimated_tokens
                       = Quarter(before.parts[i].sections[j].subsections[k], "subsection_text")

\* the chunking recommendations in the metadata of d
Recommended(d) == Get(Get(d, "metadata", <<>>), "chunking_recommendations", <<>>)

\* the ids of the Sections of d whose estimate is above the threshold
LargeSections(d) ==
    UNION {{d.parts[i].sections[j].section_id :
               j \in {j \in DOMAIN d.parts[i].sections :
                   d.parts[i].sections[j].estimated_tokens > ChunkingThreshold}} :
           i \in DOMAIN d.parts}

\* C33: estimate_token_counts sets estimated_tokens to floor(len(text) / 4)
\* on every Section and Subsection (0 without the text), and a Section is
\* in metadata.chunking_recommendations exactly when its estimate is above
\* 1500.
LargeSectionsRecommended ==
    TokensEstimated =>
        /\ EstimatesSet(argument.document, result)
        /\ {Recommended(result)[n].section_id : n \in DOMAIN Recommended(result)}
               = LargeSections(result)
        /\ Len(Recommended(result)) = Cardinality(LargeSections(result))
        /\ \A n \in DOMAIN Recommended(result) :
               Recommended(result)[n].estimated_tokens > ChunkingThreshold

\* a Section of 6003 characters is not listed, the Section of 6004
\* characters beside it is, and the Subsection of 7 characters has the
\* estimate 1
LargeSectionsRecommendedWitness ==
    /\ TokensEstimated
    /\ Len(Get(argument.document.parts[1].sections[1], "section_text", <<>>)) = 6003
    /\ Len(Get(argument.document.parts[1].sections[2], "section_text", <<>>)) = 6004
    /\ result.parts[1].sections[1].estimated_tokens = 1500
    /\ result.parts[1].sections[2].estimated_tokens = 1501
    /\ result.parts[1].sections[2].subsections[1].estimated_tokens = 1
    /\ Len(Recommended(result)) = 1
    /\ Recommended(result)[1].section_number = Seven


\* ------------------------------------------------------------------------
\* Part summaries (C34)
\* ------------------------------------------------------------------------

\* add_part_summaries has returned
PartsSummarized == pc = "answered" /\ argument.function = "add_part_summaries"

\* "Covers: " followed by the titles, separated by ", "
Covers(titles) == <<"C","o","v","e","r","s",":"," ">> \o Join(<<",", " ">>, titles)

\* the Parts of the answer that have a Section
SummarizedParts == {i \in DOMAIN result.parts : result.parts[i].sections # <<>>}

\* C34, as claimed: the summary of every Part with a Section lists the first
\* two non-empty section titles of the Part in order, wherever in the
\* section list they stand, and total_sections and total_subsections are
\* the counts of its Sections and of their Subsections.
SummaryOfFirstTwoTitles ==
    PartsSummarized =>
        \A i \in SummarizedParts :
            /\ result.parts[i].summary_hint
                   = Covers(Prefix(titled(argument.document.parts[i].sections), 2))
            /\ result.parts[i].total_sections = Len(argument.document.parts[i].sections)
            /\ result.parts[i].total_subsections
                   = Sum([j \in DOMAIN argument.document.parts[i].sections |->
                             Len(Get(argument.document.parts[i].sections[j], "subsections", <<>>))])

\* what the code does: the titles are looked for among the first three
\* Sections only
SummaryOfFirstThreeSections ==
    PartsSummarized =>
        \A i \in SummarizedParts :
            /\ result.parts[i].summary_hint
                   = Covers(Prefix(titled(Prefix(argument.document.parts[i].sections, 3)), 2))
            /\ result.parts[i].total_sections = Len(argument.document.parts[i].sections)
            /\ result.parts[i].total_subsections
                   = Sum([j \in DOMAIN argument.document.parts[i].sections |->
                             Len(Get(argument.document.parts[i].sections[j], "subsections", <<>>))])

\* a Part whose only title stands in its fourth Section has the summary
\* "Covers: "
TitleOfFourthSectionMissed ==
    /\ PartsSummarized
    /\ Len(result.parts[1].sections) = 4
    /\ titled(result.parts[1].sections) = << <<"R","e","n","t">> >>
    /\ result.parts[1].summary_hint = Covers(<<>>)


\* ------------------------------------------------------------------------
\* Distinct section numbers on every section list (C35)
\* ------------------------------------------------------------------------

\* no number stands twice in the list
Distinct(numbers) ==
    \A j, k \in DOMAIN numbers : j # k => numbers[j] # numbers[k]

\* a number of the list holds a decimal point
SomeDotted(numbers) == \E j \in DOMAIN numbers : Contains(numbers[j], <<".">>)

\* C35, as claimed: after fix_duplicate_section_numbers the section numbers
\* of each Part are pairwise distinct, whatever the section list was, lists
\* with numbers that already hold a decimal point included (5, 5.1, 5).
DuplicatesFixedOnEveryList ==
    pc = "duplicates_fixed" => \A i \in DOMAIN doc.parts : Distinct(Numbers(doc.parts[i]))

\* what the code does: the numbers of a Part come out pairwise distinct when
\* none of them held a decimal point
DuplicatesFixedWithoutDotted ==
    [][FixDuplicateSectionNumbers =>
          \A i \in DOMAIN doc.parts :
              ~SomeDotted(Numbers(doc.parts[i])) => Distinct(Numbers(doc'.parts[i]))]_vars

\* the numbers 5, 5.1, 5 of a Part become 5, 5.1, 5.1
DottedNumberRepeated ==
    [][(FixDuplicateSectionNumbers /\ Numbers(doc.parts[1]) = <<Five, FiveOne, Five>>)
          => Numbers(doc'.parts[1]) = <<Five, FiveOne, FiveOne>>]_vars

\* the pass has run on the numbers 5, 5.1, 5
DottedNumberRepeatedState ==
    /\ pc = "duplicates_fixed"
    /\ Numbers(doc.parts[1]) = <<Five, FiveOne, FiveOne>>


\* ------------------------------------------------------------------------
\* The position pointers and the tree (C36)
\* ------------------------------------------------------------------------

\* child is the last element of the list
IsLast(list, child) == list # <<>> /\ Last(list) = child

\* the open Subsection is the last one of the open Section, the open Section
\* the last one of the open Part, the open Part a Part of the document
PointersInTree ==
    /\ current_subsection # 0 =>
          /\ current_section # 0
          /\ IsLast(heap[current_section].subsections, current_subsection)
    /\ current_section # 0 =>
          /\ current_part # 0
          /\ IsLast(heap[current_part].sections, current_section)
    /\ current_part # 0 => current_part \in Range(document.parts)

\* the branch of the continuation that appends to the last Subsection with
\* no Subsection open is never taken
SubsectionOpenWhenAny ==
    (current_section # 0 /\ heap[current_section].subsections # <<>>)
        => current_subsection # 0

\* a Part open with no Section open has no Section
PartEmptyWithoutSection ==
    (current_part # 0 /\ current_section = 0) => heap[current_part].sections = <<>>

\* C36: in every state of the builder an open Subsection implies an open
\* Section and is the last of its subsections, an open Section implies an
\* open Part and is the last of its sections, an open Part is in
\* Document.parts; so a Section open with a Subsection has a Subsection
\* open, and a Part open with no Section open has no Sections.
PointersConsistent ==
    pc \in {"parsing", "returned"} =>
        (PointersInTree /\ SubsectionOpenWhenAny /\ PartEmptyWithoutSection)

\* a second Section has been opened in a Part after a Subsection of the
\* first: the pointers are on the second Section and no Subsection is open
PointersConsistentWitness ==
    /\ pc = "parsing"
    /\ current_part # 0 /\ current_section # 0 /\ current_subsection = 0
    /\ Len(heap[current_part].sections) = 2
    /\ heap[heap[current_part].sections[1]].subsections # <<>>


\* ------------------------------------------------------------------------
\* The two lookahead buffers (C37)
\* ------------------------------------------------------------------------

\* the deferred Part text and the pending Part number are not both there
OneBufferAtMost == pending_part_text = None \/ pending_part_number = None

\* a Part text is deferred only with no Schedule open
DeferredOutsideSchedule == pending_part_text # None => current_schedule = 0

\* C37: in every state of the builder at most one of the two lookahead
\* buffers is non-empty, and the deferred Part text is never set while a
\* Schedule is open.
BuffersExclusive ==
    /\ [](OneBufferAtMost /\ DeferredOutsideSchedule)
    /\ [][(pending_part_text' # None /\ pending_part_text' # pending_part_text)
              => (current_schedule' = 0 /\ pending_part_number = None)]_vars

\* a Part text has been split off and deferred after a Schedule was closed,
\* no Part number pending
BuffersExclusiveWitness ==
    /\ pc = "parsing"
    /\ pending_part_text # None
    /\ pending_part_number = None
    /\ document.schedules # <<>>
    /\ current_schedule = 0

\* a Part number is pending while a Schedule is open, no Part text deferred
NumberPendingInSchedule ==
    /\ pc = "parsing"
    /\ pending_part_number # None
    /\ pending_part_text = None
    /\ current_schedule # 0


\* ------------------------------------------------------------------------
\* Earlier nodes are left alone (C38)
\* ------------------------------------------------------------------------

\* the dicts of the heap that are Sections, and those that are Parts
SectionIds(h) == {i \in DOMAIN h : "section_number" \in DOMAIN h[i]}
PartIds(h) == {i \in DOMAIN h : "part_number" \in DOMAIN h[i]}

\* a Subsection of the heap h with its Paragraphs written out
SubsectionTree(h, i) == [h[i] EXCEPT !.paragraphs = [k \in DOMAIN @ |-> h[@[k]]]]

\* a Section of the heap h with its Subsections and their Paragraphs written
\* out: its title, text, subsections and paragraphs
SectionTree(h, i) ==
    [h[i] EXCEPT !.subsections = [k \in DOMAIN @ |-> SubsectionTree(h, @[k])]]

\* every Section but the open one is in after what it was in before
EarlierSectionsKept(before, after, open) ==
    \A i \in SectionIds(before) \ {open} : SectionTree(after, i) = SectionTree(before, i)

\* every Part but the open one has in after the title, the description and
\* the section list it had in before
EarlierPartsKept(before, after, open) ==
    \A i \in PartIds(before) \ {open} : after[i] = before[i]

\* a pointer stays, is cleared, or moves to a dict allocated in this step:
\* it never returns to an earlier node
OpenedOrKept(pointer, next, before, after) ==
    next \in {0, pointer} \cup (DOMAIN after \ DOMAIN before)

\* C38: once a new Section is open no later fragment changes the title,
\* text, subsections or paragraphs of an earlier Section, and once a new
\* Part (a PRELIMINARY one too) or a Schedule is open no later fragment
\* changes the title, description or sections of an earlier Part; only the
\* strip at the end touches earlier nodes.
EarlierNodesFrozen ==
    [][ProcessElement =>
          /\ EarlierSectionsKept(heap, heap', current_section)
          /\ EarlierPartsKept(heap, heap', current_part)
          /\ OpenedOrKept(current_section, current_section', heap, heap')
          /\ OpenedOrKept(current_part, current_part', heap, heap')]_vars

\* a fragment has been appended to the second Section of a Part, the first
\* Section being as it was when the second was opened
EarlierNodesFrozenWitness ==
    /\ pc = "parsing"
    /\ current_section # 0
    /\ Len(heap[current_part].sections) = 2
    /\ heap[current_section].section_text # <<>>
    /\ heap[Head(heap[current_part].sections)].section_text = <<>>


\* ------------------------------------------------------------------------
\* The ids of the chunks of one run (C39)
\* ------------------------------------------------------------------------

\* C39, as claimed: for every Document the builder, the Post-Processor and
\* the Enhancer give on a fragment stream, the ids of the chunks of
\* flatten_to_rag_chunks are pairwise distinct, also when a Section repeats
\* a subsection number or two Parts carry the same part number.
ChunkIdsDistinct ==
    (pc = "flattened" /\ elements # <<>>) =>
        \A j, k \in DOMAIN chunks : j # k => chunks[j].id # chunks[k].id


\* as coded: two chunks share an id exactly when they were made for the same
\* numbers, whether or not they were made for the same node
SharedIdsShareNumbers ==
    (pc = "flattened" /\ elements # <<>>) =>
        \A j, k \in DOMAIN chunks :
            (chunks[j].id = chunks[k].id) <=> (ChunkTriple(chunks[j]) = ChunkTriple(chunks[k]))

\* the run of a Section with two Subsections "(1)": two subsection chunks
\* with one id
SubsectionNumberRepeated ==
    /\ pc = "flattened"
    /\ elements # <<>>
    /\ \E j, k \in DOMAIN chunks :
          /\ j < k
          /\ chunks[j].id = chunks[k].id
          /\ chunks[j].metadata.chunk_type = "subsection"
          /\ chunks[k].metadata.chunk_type = "subsection"

\* the run of two Parts "I" with a Section "5" each: two section chunks with
\* one id
PartNumberRepeated ==
    /\ pc = "flattened"
    /\ Len(Get(doc, "parts", <<>>)) = 2
    /\ \E j, k \in DOMAIN chunks :
          /\ j < k
          /\ chunks[j].id = chunks[k].id
          /\ chunks[j].metadata.chunk_type = "section"
          /\ chunks[k].metadata.chunk_type = "section"


\* ------------------------------------------------------------------------
\* The text, the tokens and the order of the chunks (C40)
\* ------------------------------------------------------------------------

\* the nodes of d a chunk can be made from, in the order of the Document:
\* <<i, j, k>> is Subsection k of Section j of Part i, <<i, j, 0>> a Section
\* without Subsections
SourcePositions(d) ==
    Flatten([i \in DOMAIN Get(d, "parts", <<>>) |->
        Flatten([j \in DOMAIN Get(d.parts[i], "sections", <<>>) |->
            IF Get(d.parts[i].sections[j], "subsections", <<>>) # <<>>
            THEN [k \in DOMAIN d.parts[i].sections[j].subsections |-> <<i, j, k>>]
            ELSE << <<i, j, 0>> >>])])

\* the text of the node at position p: subsection_text or section_text
SourceText(d, p) ==
    IF p[3] = 0
    THEN Get(d.parts[p[1]].sections[p[2]], "section_text", <<>>)
    ELSE Get(d.parts[p[1]].sections[p[2]].subsections[p[3]], "subsection_text", <<>>)

\* chunk was made from the node at position p
ChunkFrom(d, chunk, p) ==
    /\ chunk.text = SourceText(d, p)
    /\ chunk.metadata.chunk_type = (IF p[3] = 0 THEN "section" ELSE "subsection")
    /\ chunk.metadata.section_number =
           Get(d.parts[p[1]].sections[p[2]], "section_number", <<>>)

\* the chunks of list were made from nodes of positions, one node each, in
\* the order of positions
RECURSIVE InSourceOrder(_, _, _)
InSourceOrder(d, list, positions) ==
    IF list = <<>> THEN TRUE
    ELSE IF positions = <<>> THEN FALSE
    ELSE IF ChunkFrom(d, Head(list), Head(positions))
         THEN InSourceOrder(d, Tail(list), Tail(positions))
         ELSE InSourceOrder(d, list, Tail(positions))

\* C40: the text of every chunk is the subsection_text or the section_text
\* of its source node and its tokens value is floor(len(text) / 4); no chunk
\* is made from a Paragraph or from a Section that has Subsections, and the
\* chunks follow the order of their source nodes in the Document.
ChunksFromSources ==
    pc = "flattened" =>
        /\ InSourceOrder(doc, chunks, SourcePositions(doc))
        /\ \A n \in DOMAIN chunks :
              /\ chunks[n].metadata.tokens * 4 <= Len(chunks[n].text)
              /\ Len(chunks[n].text) < (chunks[n].metadata.tokens + 1) * 4

\* a run on two Parts whose Section with Subsections and whose Paragraph
\* have a text of their own: a section chunk, then two subsection chunks
ChunksFromSourcesWitness ==
    /\ pc = "flattened"
    /\ Len(chunks) = 3
    /\ chunks[1].metadata.chunk_type = "section"
    /\ chunks[1].text = PlainText
    /\ chunks[2].text = ParagraphB
    /\ chunks[3].text = DefinitionFragment
    /\ chunks[3].metadata.tokens = 6
    /\ Get(doc.parts[2].sections[1], "section_text", <<>>) = MergedPart
    /\ doc.parts[2].sections[1].subsections[1].paragraphs[1].text = ParagraphText

=============================================================================
